---- MODULE Spec2Model ----
(***************************************************************************)
(* The message dispatcher (scheduler.py), the manual status transitions    *)
(* that make a subscriber eligible (admin_routes.py, admin_cli.py) and the *)
(* discount-code redemption path (plan_manager.py, models.py,              *)
(* telegram_bot.py) of the subscription bot.                               *)
(*                                                                         *)
(* The database is modelled by its committed contents: a variable changes  *)
(* where the code calls db.session.commit(). What a session holds in       *)
(* memory between its query and its commit is poller or conversation       *)
(* state.                                                                  *)
(***************************************************************************)
EXTENDS Integers, Sequences, FiniteSets, TLC

\* ------------------------------------------------------------------ bounds
MaxMsgs == 2
MaxTime == 1
MaxFailures == 1
MaxCrashes == 1
MaxUsesLimit == 2
MaxPrice == 4
MaxFixed == 6
MaxDay == 1
MaxManual == 1
\* The messages in the table when a day or a week is scheduled.
MaxStored == 0
MaxDeposits == 2

\* --------------------------------------------------------------- constants
\* A nullable column holding NULL (sent_at, max_uses).
None == -1

SubIds == {1, 2}
\* "absent": no row with this id.
Statuses == {"inactive", "pending", "active"}
Texts == {"hello"}

CodeIds == {1}
Users == {1, 2, 3}
PlanIds == {1, 2}
\* What a user types as a discount code.
Inputs == {"save1", "SAVE1", "other"}

\* A percentage discount is between 0 and 100.
MaxPercent == 100
Kinds == {"percent", "fixed"}
OneUser == {1}
Methods == {"stripe", "paypal", "crypto"}

\* Offsets from UTC in minutes that a subscriber can have.
Offsets == {-300, 0, 330, 345, 525, 765}
\* Times of day (hour, minute) of a group's scheduled_times.
ClockTimes == {<<0, 0>>, <<8, 0>>, <<23, 59>>}
Preferences == {"scheduled", "scheduled_timezone"}
\* The UTC offset written in a scheduled_time input, None for a bare
\* wall-clock value.
InputOffsets == {None, 0, 330, -300}
\* message_text of a request; "" stands for none.
TextInputs == {"", "Hi"}
\* service_groups rows, and the group ids of a request (no group has id 3).
Groups == {1, 2}
GroupInputs == {1, 2, 3}
\* for msg_type in ['morning', 'noon', 'evening']
MessageTypes == <<"morning", "noon", "evening">>
\* The values of a key of ServiceGroup.scheduled_times; Missing stands for a
\* key that the JSON text does not have.
Missing == ""
TimeStrings == {"00:00", "08:00", "23:59", "8am"}
\* datetime.utcnow().date(), as a number of days
Today == 0
\* for day_offset in range(7)
WeekDays == 7

\* Values of the applicable_plan_ids column; "" stands for None and for the
\* empty string, which Python treats alike.
PlanTexts == {"", "1", "2", "1,2", ","}
\* plan_id of a validation request: absent, or a number.
PlanInputs == {None, 0} \cup PlanIds

\* The job store holds one 'send_pending_messages' job (replace_existing) and
\* APScheduler runs at most one instance of a job at a time.
OnePoller == {1}
\* Two processes started against the same database.
TwoPollers == {1, 2}

VARIABLES
    status,      \* subscribers.subscription_status, by subscriber id
    msgs,        \* scheduled_messages rows, by id (a sequence: ids are 1..Len)
    now,         \* datetime.utcnow()
    pc,          \* per poller: "idle", "loop" (in the for loop), "commit"
                 \* (send returned True, the row is not yet committed),
                 \* "crashed" (the cycle was aborted)
    cycleNow,    \* per poller: the local `now` of send_pending_messages
    pending,     \* per poller: the list pending_messages
    idx,         \* per poller: position of the for loop in pending
    cache,       \* per poller: Subscriber objects loaded in the session
    outcome,     \* per poller: what the loop body did so far this cycle,
                 \* one entry per message of pending it has handled:
                 \* "skipped", "failed" (send returned False), "sent" (send
                 \* returned True)
    activeSeen,  \* per poller: subscribers that were 'active' at some moment
                 \* of the current cycle
    skipped,     \* whether some cycle has skipped a message for a non-active
                 \* owner
    failCount,   \* sends that returned False (counted up to MaxFailures)
    delivered,   \* per message: sends that returned True
    crashes,     \* number of poll cycles that were aborted
    codes,       \* discount_codes rows, by id
    upc,         \* per Telegram user: where the conversation stands: "plan"
                 \* (PLAN_SELECTION), "ended" (ConversationHandler.END),
                 \* "code" (DISCOUNT_CODE), "pay" (PAYMENT_METHOD),
                 \* "created" (the
                 \* subscriber row is committed), "loaded" (the code row is
                 \* read), "done", "failed"
    chosen,      \* per user: user_data['discount_code_id'] (0: none)
    readUses,    \* per user: current_uses as the session has read it
    reply,       \* the latest answer to a validation of a code: the request
                 \* (text, plan_id, time) and (valid, code id, error message)
    planPrice,   \* subscription_plans.price by plan id, in cents
    quote,       \* per user: the plan's price and the pricing of the
                 \* discount code kept in user_data, in cents
    tz,          \* per subscriber: timezone_offset_minutes,
                 \* timezone_label, use_timezone_matching and
                 \* message_delivery_preference
    group,       \* per subscriber: group_id
    times,       \* per service group: scheduled_times
    result,      \* what the latest schedule_group_messages did: returned a
                 \* dict ("success", "error") or raised
    results,     \* what the latest daily or weekly scheduling did: the keys
                 \* and values put in its results dict, and whether it
                 \* returned or raised
    call,        \* the schedule_group_messages call in progress: its
                 \* arguments, the subscribers left to handle and the rows
                 \* added to the session
    origin,      \* per message of a group scheduling: the local time it was
                 \* asked for and whether it was timezone-matched
    listing,     \* the latest answer of GET /api/messages
    checkout,    \* the latest run of process_subscription past the creation
                 \* of the subscriber: the price it was given, the request
                 \* made to the payment provider and the subscriber's status
    planOf,      \* per user: user_data['plan_id'], which becomes the
                 \* plan_id of the subscriber that process_subscription
                 \* creates
    deposits,    \* deposit_approvals rows, by id: subscriber_id and status
    answer,      \* the latest answer of an admin request: the handler, the
                 \* id it was given and what it answered
    deleted      \* the ids of the scheduled_messages rows that were deleted
                 \* (msgs keeps them, so that ids stay positions)

pollerVars == <<pc, cycleNow, pending, idx, cache, outcome, activeSeen>>

logVars == <<skipped, failCount, delivered, crashes>>

dispatchVars == <<status, msgs, now, pollerVars, logVars>>

codeVars == <<codes, upc, chosen, readUses>>

replyVars == <<reply>>

adminVars == <<planOf, deposits, answer, deleted>>

priceVars == <<planPrice, quote, checkout>>

groupConf == <<tz, group, times>>

callVars == <<result, results, call>>

groupVars == <<groupConf, origin, listing, callVars>>

nonDispatchVars == <<codeVars, replyVars, adminVars, priceVars, groupVars>>

nonCodeVars == <<dispatchVars, replyVars, adminVars, groupVars>>

vars == <<dispatchVars, codeVars, replyVars, adminVars, priceVars, groupVars>>

MsgIds == 1..MaxMsgs

Min(a, b) == IF a <= b THEN a ELSE b

\* ------------------------------------------------------------- the store
\* ScheduledMessage(...) with the column defaults sent=False, sent_at=NULL.
NewMessage(s, text, t) ==
    [subscriber_id |-> s, message |-> text, scheduled_time |-> t,
     sent |-> FALSE, sent_at |-> None, timezone_offset_minutes |-> 0,
     timezone_label |-> "UTC"]

\* The pending query selecting only the messages due at this very instant.
IsDueExactly(row, t) == row.sent = FALSE /\ row.scheduled_time = t

\* The pending query without its time filter.
IsDueAnyTime(row, t) == row.sent = FALSE

\* The pending query without its sent filter.
IsDueSentToo(row, t) == row.scheduled_time <= t

\* The filter of the pending query.
IsDue(row, t) == row.sent = FALSE /\ row.scheduled_time <= t

\* ScheduledMessage.query.filter(sent == False, scheduled_time <= now).all(),
\* as the list of ids in primary-key order.
DueQuery(ms, t) ==
    SelectSeq([i \in 1..Len(ms) |-> i],
              LAMBDA i : i \notin deleted /\ IsDue(ms[i], t))

\* The commit that writes sent_at and leaves sent as it was.
MarkSentAtOnly(ms, m, t) == [ms EXCEPT ![m].sent_at = t]

\* msg.sent = True; msg.sent_at = datetime.utcnow(); db.session.commit()
MarkSent(ms, m, t) == [ms EXCEPT ![m].sent = TRUE, ![m].sent_at = t]

\* A failed send that is logged and forgotten.
AfterFailureForgotten(ms, m) == [ms EXCEPT ![m].sent = TRUE]

\* `if success:` has no else branch: after a failed send the loop writes
\* nothing.
AfterFailure(ms, m) == ms

\* ----------------------------------------------------------- poll cycle
Unloaded == [s \in SubIds |-> "unloaded"]

CurrentMsg(p) == pending[p][idx[p]]

InLoop(p) == pc[p] = "loop" /\ idx[p] <= Len(pending[p])

\* msg.subscriber: the many-to-one lazy load returns the Subscriber object of
\* the session's identity map when it is loaded there, and reads the row
\* otherwise. A commit expires every object of the session.
ResolvedStatus(p, s) ==
    IF cache[p][s] = "unloaded" THEN status[s] ELSE cache[p][s]

\* Only 'inactive' subscribers are left out.
EligibleUnlessInactive(p, m) ==
    ResolvedStatus(p, msgs[m].subscriber_id) # "inactive"

\* The message is claimed first: it is sent only while the store still has
\* it unsent.
EligibleUnclaimed(p, m) ==
    /\ ResolvedStatus(p, msgs[m].subscriber_id) = "active"
    /\ msgs[m].sent = FALSE

\* if subscriber.subscription_status == 'active'
Eligible(p, m) == ResolvedStatus(p, msgs[m].subscriber_id) = "active"

Loaded(p, m) ==
    [cache EXCEPT ![p][msgs[m].subscriber_id] =
                      ResolvedStatus(p, msgs[m].subscriber_id)]

\* The cron trigger fires: now = utcnow(), the pending query runs.
BeginCycle(p) ==
    /\ pc[p] \in {"idle", "crashed"}
    /\ pc' = [pc EXCEPT ![p] = "loop"]
    /\ cycleNow' = [cycleNow EXCEPT ![p] = now]
    /\ pending' = [pending EXCEPT ![p] = DueQuery(msgs, now)]
    /\ idx' = [idx EXCEPT ![p] = 1]
    /\ cache' = [cache EXCEPT ![p] = Unloaded]
    /\ outcome' = [outcome EXCEPT ![p] = <<>>]
    /\ activeSeen' = [activeSeen EXCEPT
                        ![p] = {s \in SubIds : status[s] = "active"}]
    /\ UNCHANGED <<nonDispatchVars, status, msgs, now, logVars>>

\* msg.subscriber is None: the row of the subscriber is gone and the session
\* holds no object for it.
OwnerMissing(p, m) == ResolvedStatus(p, msgs[m].subscriber_id) = "absent"

\* subscriber.subscription_status of None raises: the cycle is aborted.
OwnerGone(p) ==
    /\ InLoop(p)
    /\ OwnerMissing(p, CurrentMsg(p))
    /\ pc' = [pc EXCEPT ![p] = "crashed"]
    /\ cache' = [cache EXCEPT ![p] = Unloaded]
    /\ outcome' = [outcome EXCEPT ![p] = Append(@, "raised")]
    /\ UNCHANGED <<nonDispatchVars, status, msgs, now, cycleNow, pending,
                   idx, activeSeen, logVars>>

\* The subscriber is not active: the loop body does nothing for this message.
SkipInactive(p) ==
    /\ InLoop(p)
    /\ ~OwnerMissing(p, CurrentMsg(p))
    /\ ~Eligible(p, CurrentMsg(p))
    /\ cache' = Loaded(p, CurrentMsg(p))
    /\ idx' = [idx EXCEPT ![p] = idx[p] + 1]
    /\ outcome' = [outcome EXCEPT ![p] = Append(@, "skipped")]
    /\ skipped' = TRUE
    /\ UNCHANGED <<nonDispatchVars, status, msgs, now, pc, cycleNow, pending, activeSeen,
                   failCount, delivered, crashes>>

\* A failed send that leaves the for loop.
SendFailureBreak(p) ==
    /\ InLoop(p)
    /\ Eligible(p, CurrentMsg(p))
    /\ failCount' = Min(failCount + 1, MaxFailures)
    /\ cache' = Loaded(p, CurrentMsg(p))
    /\ idx' = [idx EXCEPT ![p] = Len(pending[p]) + 1]
    /\ outcome' = [outcome EXCEPT ![p] = Append(@, "failed")]
    /\ UNCHANGED <<nonDispatchVars, status, msgs, now, pc, cycleNow, pending,
                   activeSeen, skipped, delivered, crashes>>

\* send_sms_to_subscriber returned False.
SendFailure(p) ==
    /\ InLoop(p)
    /\ Eligible(p, CurrentMsg(p))
    /\ msgs' = AfterFailure(msgs, CurrentMsg(p))
    /\ failCount' = Min(failCount + 1, MaxFailures)
    /\ cache' = Loaded(p, CurrentMsg(p))
    /\ idx' = [idx EXCEPT ![p] = idx[p] + 1]
    /\ outcome' = [outcome EXCEPT ![p] = Append(@, "failed")]
    /\ UNCHANGED <<nonDispatchVars, status, now, pc, cycleNow, pending, activeSeen,
                   skipped, delivered, crashes>>

\* send_sms_to_subscriber returned True: the row is about to be written.
SendSuccess(p) ==
    /\ InLoop(p)
    /\ Eligible(p, CurrentMsg(p))
    /\ delivered' = [delivered EXCEPT ![CurrentMsg(p)] = @ + 1]
    /\ outcome' = [outcome EXCEPT ![p] = Append(@, "sent")]
    /\ cache' = Loaded(p, CurrentMsg(p))
    /\ pc' = [pc EXCEPT ![p] = "commit"]
    /\ UNCHANGED <<nonDispatchVars, status, msgs, now, cycleNow, pending, idx, activeSeen,
                   skipped, failCount, crashes>>

\* The rows are marked in the session and committed once, after the loop:
\* nothing is written when the loop moves on.
CommitSentAfterLoop(p) ==
    /\ pc[p] = "commit"
    /\ idx' = [idx EXCEPT ![p] = idx[p] + 1]
    /\ pc' = [pc EXCEPT ![p] = "loop"]
    /\ UNCHANGED <<nonDispatchVars, status, msgs, now, cycleNow, pending, cache, outcome,
                   activeSeen, logVars>>

\* msg.sent = True; msg.sent_at = utcnow(); commit. The commit expires the
\* session's objects.
CommitSent(p) ==
    /\ pc[p] = "commit"
    /\ CurrentMsg(p) \notin deleted
    /\ msgs' = MarkSent(msgs, CurrentMsg(p), now)
    /\ cache' = [cache EXCEPT ![p] = Unloaded]
    /\ idx' = [idx EXCEPT ![p] = idx[p] + 1]
    /\ pc' = [pc EXCEPT ![p] = "loop"]
    /\ UNCHANGED <<nonDispatchVars, status, now, cycleNow, pending, outcome, activeSeen,
                   logVars>>

\* The commit of a row that was deleted meanwhile: the UPDATE matches no row
\* and the commit raises; the cycle is aborted after the send.
CommitGone(p) ==
    /\ pc[p] = "commit"
    /\ CurrentMsg(p) \in deleted
    /\ pc' = [pc EXCEPT ![p] = "crashed"]
    /\ cache' = [cache EXCEPT ![p] = Unloaded]
    /\ UNCHANGED <<nonDispatchVars, status, msgs, now, cycleNow, pending,
                   idx, outcome, activeSeen, logVars>>

\* The for loop is exhausted; the app context is popped and the locals of
\* the call are gone.
EndCycle(p) ==
    /\ pc[p] = "loop"
    /\ idx[p] > Len(pending[p])
    /\ pc' = [pc EXCEPT ![p] = "idle"]
    /\ cycleNow' = [cycleNow EXCEPT ![p] = 0]
    /\ pending' = [pending EXCEPT ![p] = <<>>]
    /\ idx' = [idx EXCEPT ![p] = 1]
    /\ cache' = [cache EXCEPT ![p] = Unloaded]
    /\ outcome' = [outcome EXCEPT ![p] = <<>>]
    /\ activeSeen' = [activeSeen EXCEPT ![p] = {}]
    /\ UNCHANGED <<nonDispatchVars, status, msgs, now, logVars>>

\* The cycle is aborted inside the loop (the process is killed, or the send
\* or the commit raises): what was not committed is lost. pending, idx and
\* outcome keep what the aborted cycle had reached, until the next cycle.
Crash(p) ==
    /\ pc[p] \in {"loop", "commit"}
    /\ crashes < MaxCrashes
    /\ crashes' = crashes + 1
    /\ pc' = [pc EXCEPT ![p] = "crashed"]
    /\ cache' = [cache EXCEPT ![p] = Unloaded]
    /\ UNCHANGED <<nonDispatchVars, status, msgs, now, cycleNow, pending, idx, outcome,
                   activeSeen, skipped, failCount, delivered>>

\* ------------------------------------------------------------ environment
Tick ==
    /\ now < MaxTime
    /\ now' = now + 1
    /\ UNCHANGED <<nonDispatchVars, status, msgs, pollerVars, logVars>>

\* schedule_message: one new pending row for an existing subscriber,
\* committed.
ScheduleMessage(s, text, t) ==
    /\ status[s] # "absent"
    /\ Len(msgs) < MaxMsgs
    /\ msgs' = Append(msgs, NewMessage(s, text, t))
    /\ UNCHANGED <<nonDispatchVars, status, now, pollerVars, logVars>>

\* A committed write of subscription_status.
WriteStatus(s, st) ==
    /\ status' = [status EXCEPT ![s] = st]
    /\ activeSeen' = [p \in DOMAIN activeSeen |->
                        IF st = "active" /\ pc[p] \in {"loop", "commit"}
                        THEN activeSeen[p] \cup {s}
                        ELSE activeSeen[p]]
    /\ UNCHANGED <<nonDispatchVars, msgs, now, pc, cycleNow, pending, idx, cache, outcome,
                   logVars>>

\* POST /api/subscribers/<id>/approve-payment
ApprovePayment(s) ==
    /\ status[s] = "pending"
    /\ WriteStatus(s, "active")

\* POST /api/subscribers/<id>/reject-payment
RejectPayment(s) ==
    /\ status[s] = "pending"
    /\ WriteStatus(s, "inactive")

\* admin_cli.py update-status: any status, from any status.
UpdateStatus(s, st) ==
    /\ status[s] \notin {"absent", st}
    /\ WriteStatus(s, st)

\* What an admin request is answered: the handler, the id of the row it was
\* asked about and the HTTP status code.
Response(handler, id, code) == [handler |-> handler, id |-> id, code |-> code]

NoRequest == Response("none", None, "none")

\* The rows of scheduled_messages that belong to subscriber s.
MessagesOf(s) ==
    {i \in 1..Len(msgs) : i \notin deleted /\ msgs[i].subscriber_id = s}

\* delete_subscriber: no such subscriber; or db.session.delete(subscriber)
\* and the commit, which delete the subscriber's messages with it. The
\* delete sets the subscriber_id of the subscriber's deposit approvals to
\* NULL, which the column refuses: the commit raises and nothing is deleted.
RemoveSubscriber(handler, s) ==
    /\ IF status[s] = "absent"
       THEN /\ answer' = Response(handler, s, "not found")
            /\ UNCHANGED <<status, deleted>>
       ELSE IF \E d \in DOMAIN deposits : deposits[d].subscriber_id = s
       THEN /\ answer' = Response(handler, s, "error")
            /\ UNCHANGED <<status, deleted>>
       ELSE /\ answer' = Response(handler, s, "deleted")
            /\ status' = [status EXCEPT ![s] = "absent"]
            /\ deleted' = deleted \cup MessagesOf(s)
    /\ UNCHANGED <<msgs, now, pollerVars, logVars, codeVars, replyVars,
                   priceVars, groupVars, planOf, deposits>>

\* DELETE /api/subscribers/<id>: the messages go by the cascade of
\* Subscriber.messages.
DeleteSubscriber(s) == RemoveSubscriber("app.delete_subscriber", s)

\* admin_cli.py delete --force: the messages are deleted by a query.
CliDeleteSubscriber(s) == RemoveSubscriber("admin_cli.delete_subscriber", s)

\* The pollers that have seen subscriber s 'active' in their running cycle,
\* after a committed write of st as its status.
SeenAfter(s, st) ==
    [p \in DOMAIN activeSeen |->
        IF st = "active" /\ pc[p] \in {"loop", "commit"}
        THEN activeSeen[p] \cup {s}
        ELSE activeSeen[p]]

\* approve_subscriber_payment and reject_subscriber_payment: the subscriber
\* is not found (get_or_404 raises inside the try: 500), is not 'pending'
\* (400), or gets the new status.
ReviewPayment(handler, s, st) ==
    /\ IF status[s] = "absent"
       THEN /\ answer' = Response(handler, s, "error")
            /\ UNCHANGED <<status, activeSeen>>
       ELSE IF status[s] # "pending"
       THEN /\ answer' = Response(handler, s, "not pending")
            /\ UNCHANGED <<status, activeSeen>>
       ELSE /\ answer' = Response(handler, s, "ok")
            /\ status' = [status EXCEPT ![s] = st]
            /\ activeSeen' = SeenAfter(s, st)
    /\ UNCHANGED <<msgs, now, pc, cycleNow, pending, idx, cache, outcome,
                   logVars, codeVars, replyVars, priceVars, groupVars,
                   planOf, deposits, deleted>>

\* POST /api/subscribers/<id>/approve-payment, with its answer
ApproveSubscriberPayment(s) ==
    ReviewPayment("approve_subscriber_payment", s, "active")

\* POST /api/subscribers/<id>/reject-payment, with its answer
RejectSubscriberPayment(s) ==
    ReviewPayment("reject_subscriber_payment", s, "inactive")

\* DepositApproval(subscriber_id=subscriber.id, ..., status='pending')
NewDeposit(s) == [subscriber_id |-> s, status |-> "pending"]

\* create_manual_crypto_subscription: the subscriber becomes 'pending' and a
\* deposit approval is asked for.
CreateDeposit(s) ==
    /\ status[s] # "absent"
    /\ Len(deposits) < MaxDeposits
    /\ deposits' = Append(deposits, NewDeposit(s))
    /\ status' = [status EXCEPT ![s] = "pending"]
    /\ activeSeen' = SeenAfter(s, "pending")
    /\ UNCHANGED <<msgs, now, pc, cycleNow, pending, idx, cache, outcome,
                   logVars, codeVars, replyVars, priceVars, groupVars,
                   planOf, answer, deleted>>

\* A review that does not look at the status of the deposit.
ReviewDepositAnyStatus(handler, d, verdict, st) ==
    /\ IF d \notin DOMAIN deposits
       THEN /\ answer' = Response(handler, d, "error")
            /\ UNCHANGED <<deposits, status, activeSeen>>
       ELSE /\ answer' = Response(handler, d, "ok")
            /\ deposits' = [deposits EXCEPT ![d].status = verdict]
            /\ status' = [status EXCEPT ![deposits[d].subscriber_id] = st]
            /\ activeSeen' = SeenAfter(deposits[d].subscriber_id, st)
    /\ UNCHANGED <<msgs, now, pc, cycleNow, pending, idx, cache, outcome,
                   logVars, codeVars, replyVars, priceVars, groupVars,
                   planOf, deleted>>

\* approve_deposit and reject_deposit: the deposit is not found (500), is
\* not 'pending' (400), has no subscriber (approve: 404), or the verdict and
\* the subscriber's status are committed together; when the commit raises,
\* everything is rolled back (500).
ReviewDeposit(handler, d, verdict, st) ==
    /\ IF d \notin DOMAIN deposits
       THEN /\ answer' = Response(handler, d, "error")
            /\ UNCHANGED <<deposits, status, activeSeen>>
       ELSE IF deposits[d].status # "pending"
       THEN /\ answer' = Response(handler, d, "not pending")
            /\ UNCHANGED <<deposits, status, activeSeen>>
       ELSE IF status[deposits[d].subscriber_id] = "absent"
       THEN IF verdict = "approved"
            THEN /\ answer' = Response(handler, d, "no subscriber")
                 /\ UNCHANGED <<deposits, status, activeSeen>>
            ELSE /\ answer' = Response(handler, d, "ok")
                 /\ deposits' = [deposits EXCEPT ![d].status = verdict]
                 /\ UNCHANGED <<status, activeSeen>>
       ELSE \E committed \in BOOLEAN :
               IF committed
               THEN /\ answer' = Response(handler, d, "ok")
                    /\ deposits' = [deposits EXCEPT ![d].status = verdict]
                    /\ status' = [status EXCEPT
                                    ![deposits[d].subscriber_id] = st]
                    /\ activeSeen' = SeenAfter(deposits[d].subscriber_id, st)
               ELSE /\ answer' = Response(handler, d, "error")
                    /\ UNCHANGED <<deposits, status, activeSeen>>
    /\ UNCHANGED <<msgs, now, pc, cycleNow, pending, idx, cache, outcome,
                   logVars, codeVars, replyVars, priceVars, groupVars,
                   planOf, deleted>>

\* POST /api/deposits/<id>/approve
ApproveDeposit(d) == ReviewDeposit("approve_deposit", d, "approved", "active")

\* POST /api/deposits/<id>/reject
RejectDeposit(d) == ReviewDeposit("reject_deposit", d, "rejected", "inactive")

\* -------------------------------------------------------- discount codes
\* str.upper()
Upper(text) ==
    CASE text = "save1" -> "SAVE1"
      [] text = "other" -> "OTHER"
      [] OTHER -> text

\* "if x" of Python for a nullable integer: None and 0 are false.
Truthy(x) == x # None /\ x # 0

\* [int(x.strip()) for x in applicable_plan_ids.split(',') if x.strip()]
PlanIdsOf(text) ==
    CASE text = "1" -> {1}
      [] text = "2" -> {2}
      [] text = "1,2" -> {1, 2}
      [] OTHER -> {}

\* DiscountCode(...) as create_code builds it; current_uses defaults to 0.
NewCode(text, kind, value, maxUses) ==
    [code |-> Upper(text), discount_type |-> kind, discount_value |-> value,
     is_active |-> TRUE, max_uses |-> maxUses,
     current_uses |-> 0, valid_from |-> None, valid_until |-> None,
     applicable_plan_ids |-> ""]

IsValidExpiryFirst(dc, plan_id, t) ==
    IF dc.valid_until # None /\ t > dc.valid_until
    THEN "Discount code has expired"
    ELSE IF ~dc.is_active
    THEN "Discount code is not active"
    ELSE IF Truthy(dc.max_uses) /\ dc.current_uses >= dc.max_uses
    THEN "Discount code has reached maximum uses"
    ELSE IF dc.valid_from # None /\ t < dc.valid_from
    THEN "Discount code is not yet valid"
    ELSE IF /\ dc.applicable_plan_ids # ""
            /\ Truthy(plan_id)
            /\ plan_id \notin PlanIdsOf(dc.applicable_plan_ids)
    THEN "Discount code is not applicable to this plan"
    ELSE "Valid"

IsValidOneMore(dc, plan_id, t) ==
    IF ~dc.is_active
    THEN "Discount code is not active"
    ELSE IF Truthy(dc.max_uses) /\ dc.current_uses > dc.max_uses
    THEN "Discount code has reached maximum uses"
    ELSE IF dc.valid_from # None /\ t < dc.valid_from
    THEN "Discount code is not yet valid"
    ELSE IF dc.valid_until # None /\ t > dc.valid_until
    THEN "Discount code has expired"
    ELSE IF /\ dc.applicable_plan_ids # ""
            /\ Truthy(plan_id)
            /\ plan_id \notin PlanIdsOf(dc.applicable_plan_ids)
    THEN "Discount code is not applicable to this plan"
    ELSE "Valid"

IsValidUntilExclusive(dc, plan_id, t) ==
    IF ~dc.is_active
    THEN "Discount code is not active"
    ELSE IF Truthy(dc.max_uses) /\ dc.current_uses >= dc.max_uses
    THEN "Discount code has reached maximum uses"
    ELSE IF dc.valid_from # None /\ t < dc.valid_from
    THEN "Discount code is not yet valid"
    ELSE IF dc.valid_until # None /\ t >= dc.valid_until
    THEN "Discount code has expired"
    ELSE IF /\ dc.applicable_plan_ids # ""
            /\ Truthy(plan_id)
            /\ plan_id \notin PlanIdsOf(dc.applicable_plan_ids)
    THEN "Discount code is not applicable to this plan"
    ELSE "Valid"

\* DiscountCode.is_valid: the error message, or "Valid".
IsValid(dc, plan_id, t) ==
    IF ~dc.is_active
    THEN "Discount code is not active"
    ELSE IF Truthy(dc.max_uses) /\ dc.current_uses >= dc.max_uses
    THEN "Discount code has reached maximum uses"
    ELSE IF dc.valid_from # None /\ t < dc.valid_from
    THEN "Discount code is not yet valid"
    ELSE IF dc.valid_until # None /\ t > dc.valid_until
    THEN "Discount code has expired"
    ELSE IF /\ dc.applicable_plan_ids # ""
            /\ Truthy(plan_id)
            /\ plan_id \notin PlanIdsOf(dc.applicable_plan_ids)
    THEN "Discount code is not applicable to this plan"
    ELSE "Valid"

\* DiscountCode.query.filter_by(code=...).first(): the id, or 0 for no row.
\* The code column is unique.
Lookup(cs, text) ==
    IF \E c \in DOMAIN cs : cs[c].code = text
    THEN CHOOSE c \in DOMAIN cs : cs[c].code = text
    ELSE 0

\* validate_discount_code: (is_valid, discount_code, error_message), the
\* discount code given by its id.
ValidateDiscountCode(cs, text, plan_id, t) ==
    LET c == Lookup(cs, Upper(text)) IN
    IF c = 0
    THEN [ok |-> FALSE, id |-> 0, error |-> "Discount code not found"]
    ELSE IF IsValid(cs[c], plan_id, t) # "Valid"
    THEN [ok |-> FALSE, id |-> c, error |-> IsValid(cs[c], plan_id, t)]
    ELSE [ok |-> TRUE, id |-> c, error |-> "None"]

\* increment_discount_code_usage on a DiscountCode object whose current_uses
\* attribute holds `seen`: the commit writes seen + 1 to the row.
IncrementUsage(cs, c, seen) == [cs EXCEPT ![c].current_uses = seen + 1]

Max(a, b) == IF a >= b THEN a ELSE b

\* round(x, 2) of a float x, for x given in hundredths of a cent and the
\* result in cents: the nearest cent; when x is halfway between two cents the
\* double that stands for x lies just below or just above the half, and the
\* result goes with it.
Round2(x) ==
    LET q == x \div 100
        r == x % 100
    IN  IF r < 50 THEN {q} ELSE IF r > 50 THEN {q + 1} ELSE {q, q + 1}

\* apply_discount without the floor of a fixed discount at zero.
ApplyDiscountUnclamped(dc, base_price) ==
    IF dc.discount_type = "percent"
    THEN LET discount_amount == base_price * dc.discount_value
             final_price == base_price * 100 - discount_amount
         IN  {<<f, a>> : f \in Round2(final_price), a \in Round2(discount_amount)}
    ELSE LET discount_amount == dc.discount_value
             final_price == base_price - discount_amount
         IN  {<<f, a>> : f \in Round2(final_price * 100),
                         a \in Round2(discount_amount * 100)}

\* DiscountCode.apply_discount: the pairs (final_price, discount_amount) it
\* can return for a base price in cents; a percentage is in whole percents,
\* a fixed value in cents.
ApplyDiscount(dc, base_price) ==
    IF dc.discount_type = "percent"
    THEN LET discount_amount == base_price * dc.discount_value
             final_price == base_price * 100 - discount_amount
         IN  {<<f, a>> : f \in Round2(final_price), a \in Round2(discount_amount)}
    ELSE LET discount_amount == dc.discount_value
             final_price == Max(0, base_price - discount_amount)
         IN  {<<f, a>> : f \in Round2(final_price * 100),
                         a \in Round2(discount_amount * 100)}

\* apply_discount_code: the pricing dictionaries it can return.
ApplyDiscountCode(dc, price) ==
    {[base_price |-> price, discount_amount |-> fa[2], final_price |-> fa[1],
      is_free |-> (fa[1] = 0)] : fa \in ApplyDiscount(dc, price)}

\* user_data before a code is entered or after /skip: the plan, no pricing.
PlanOnly(price) ==
    [base_price |-> price, discount_amount |-> None, final_price |-> None,
     is_free |-> FALSE]

NoQuote == PlanOnly(None)

\* int(x * 100) for a float x of dollars and cents: the product can fall just
\* below the whole number of cents, and int truncates.
UnitAmount(cents) == IF cents = 0 THEN {0} ELSE {cents - 1, cents}

\* The amount of the checkout that process_subscription asks the provider
\* for: Stripe takes final_price when it is truthy and the plan's price
\* otherwise; PayPal and Coinbase take final_price unless it is None.
CheckoutAmount(method, q) ==
    IF method = "stripe"
    THEN UnitAmount(IF Truthy(q.final_price)
                    THEN q.final_price ELSE q.base_price)
    ELSE {IF q.final_price # None THEN q.final_price ELSE q.base_price}

NoCheckout ==
    [final_price |-> None, base_price |-> None, method |-> "none",
     amount |-> None, status |-> "absent"]

\* process_subscription after the increment: the subscriber is 'inactive',
\* a checkout is created with the provider and the subscriber becomes
\* 'pending'; when the provider raises, the subscriber stays 'inactive'.
StartCheckout(u) ==
    \E method \in Methods, ok \in BOOLEAN :
        IF ok
        THEN \E amount \in CheckoutAmount(method, quote[u]) :
                checkout' = [final_price |-> quote[u].final_price,
                             base_price |-> quote[u].base_price,
                             method |-> method, amount |-> amount,
                             status |-> "pending"]
        ELSE checkout' = [final_price |-> quote[u].final_price,
                          base_price |-> quote[u].base_price,
                          method |-> method, amount |-> None,
                          status |-> "inactive"]

\* What the caller of a validation is told, with the request it answers.
Answer(text, plan_id, t, r) ==
    [text |-> text, plan_id |-> plan_id, at |-> t,
     valid |-> r.ok, id |-> r.id, error |-> r.error]

NoAnswer ==
    [text |-> "", plan_id |-> None, at |-> 0,
     valid |-> FALSE, id |-> 0, error |-> "no request"]

\* POST /api/codes/validate
ValidateCode(text, plan_id) ==
    /\ reply' = IF Upper(text) = ""
                THEN Answer(text, plan_id, now,
                            [ok |-> FALSE, id |-> 0,
                             error |-> "Code is required"])
                ELSE Answer(text, plan_id, now,
                            ValidateDiscountCode(codes, Upper(text),
                                                 plan_id, now))
    /\ UNCHANGED <<dispatchVars, codeVars, adminVars, priceVars, groupVars>>

\* plan_selection_callback: a plan that exists is kept in user_data, as its
\* id and as the object that was read; for any other the conversation ends.
SelectPlan(u, p) ==
    /\ upc[u] = "plan"
    /\ IF p \in DOMAIN planPrice
       THEN /\ planOf' = [planOf EXCEPT ![u] = p]
            /\ quote' = [quote EXCEPT ![u] = PlanOnly(planPrice[p])]
            /\ upc' = [upc EXCEPT ![u] = "code"]
       ELSE /\ upc' = [upc EXCEPT ![u] = "ended"]
            /\ UNCHANGED <<planOf, quote>>
    /\ UNCHANGED <<dispatchVars, replyVars, groupVars, codes, chosen,
                   readUses, planPrice, checkout, deposits, answer, deleted>>

\* user_data['plan'].price: the plan object is the one read when the plan
\* was selected, whatever has happened to its row since; where the
\* selection is not part of the conversation, the row of the plan.
SelectedPrice(u, plan_id) ==
    IF planOf[u] # None THEN quote[u].base_price ELSE planPrice[plan_id]

\* discount_code_handler: the text is validated for the selected plan; a
\* valid code is kept in user_data and the conversation goes on to the
\* payment method, an invalid one is asked for again.
EnterCode(u, text, plan_id) ==
    /\ upc[u] = "code"
    /\ LET r == ValidateDiscountCode(codes, Upper(text), plan_id, now) IN
          /\ reply' = Answer(text, plan_id, now, r)
          /\ IF r.ok
             THEN /\ chosen' = [chosen EXCEPT ![u] = r.id]
                  /\ \E pricing \in ApplyDiscountCode(codes[r.id],
                                              SelectedPrice(u, plan_id)) :
                        quote' = [quote EXCEPT ![u] = pricing]
                  /\ upc' = [upc EXCEPT ![u] = "pay"]
             ELSE UNCHANGED <<chosen, quote, upc>>
    /\ UNCHANGED <<dispatchVars, groupVars, codes, readUses, planPrice,
                   checkout, adminVars>>

\* skip_discount_code
SkipCode(u, plan_id) ==
    /\ upc[u] = "code"
    /\ chosen' = [chosen EXCEPT ![u] = 0]
    /\ quote' = [quote EXCEPT ![u] = PlanOnly(SelectedPrice(u, plan_id))]
    /\ upc' = [upc EXCEPT ![u] = "pay"]
    /\ UNCHANGED <<nonCodeVars, codes, readUses, planPrice, checkout>>

\* process_subscription up to the commit of the subscriber row, which can
\* raise (the phone number is unique): then nothing else is done.
CreateSubscriber(u) ==
    /\ upc[u] = "pay"
    /\ \E committed \in BOOLEAN :
          upc' = [upc EXCEPT ![u] = IF committed THEN "created" ELSE "failed"]
    /\ UNCHANGED <<nonCodeVars, codes, chosen, readUses, priceVars>>

\* if discount_code_id: discount_code = DiscountCode.query.get(...)
LoadCode(u) ==
    /\ upc[u] = "created"
    /\ IF chosen[u] # 0 /\ chosen[u] \in DOMAIN codes
       THEN /\ readUses' = [readUses EXCEPT
                              ![u] = codes[chosen[u]].current_uses]
            /\ upc' = [upc EXCEPT ![u] = "loaded"]
            /\ UNCHANGED checkout
       ELSE /\ upc' = [upc EXCEPT ![u] = "done"]
            /\ StartCheckout(u)
            /\ UNCHANGED readUses
    /\ UNCHANGED <<nonCodeVars, codes, chosen, planPrice, quote>>

\* increment_discount_code_usage(discount_code), and the rest of
\* process_subscription
CommitIncrement(u) ==
    /\ upc[u] = "loaded"
    /\ codes' = IncrementUsage(codes, chosen[u], readUses[u])
    /\ readUses' = [readUses EXCEPT ![u] = None]
    /\ upc' = [upc EXCEPT ![u] = "done"]
    /\ StartCheckout(u)
    /\ UNCHANGED <<nonCodeVars, chosen, planPrice, quote>>

ExistingSubscriberIgnored(u) == FALSE

\* Subscriber.query.filter_by(telegram_user_id=...).first() finds a row: the
\* user's subscriber has been committed.
ExistingSubscriber(u) == upc[u] = "done"

\* process_subscription as one handler of the bot's event loop: there is no
\* await between the check for an existing subscriber, the commit of the
\* subscriber and the commit of the increment. The payment button can be
\* pressed again while the first run waits for the payment provider.
ProcessSubscription(u) ==
    /\ upc[u] \in {"pay", "done"}
    /\ \E committed \in BOOLEAN :
          IF ExistingSubscriber(u)
          THEN UNCHANGED <<upc, codes, checkout>>
          ELSE IF ~committed
          THEN /\ upc' = [upc EXCEPT ![u] = "failed"]
               /\ UNCHANGED <<codes, checkout>>
          ELSE /\ upc' = [upc EXCEPT ![u] = "done"]
               /\ codes' = IF chosen[u] # 0 /\ chosen[u] \in DOMAIN codes
                           THEN IncrementUsage(codes, chosen[u],
                                               codes[chosen[u]].current_uses)
                           ELSE codes
               /\ StartCheckout(u)
    /\ UNCHANGED <<nonCodeVars, chosen, readUses, planPrice, quote>>

\* /start after a failed creation: the user data is cleared and the
\* conversation comes back to the discount-code step.
StartOver(u) ==
    /\ upc[u] = "failed"
    /\ upc' = [upc EXCEPT ![u] = "code"]
    /\ chosen' = [chosen EXCEPT ![u] = 0]
    /\ quote' = [quote EXCEPT ![u] = NoQuote]
    /\ UNCHANGED <<nonCodeVars, codes, readUses, planPrice, checkout>>

\* The users whose subscriber row is committed; its plan_id is the plan_id
\* of user_data.
Subscribed(u) == upc[u] \in {"created", "loaded", "done"}

\* Subscriber.query.filter_by(plan_id=plan_id)
SubscribersOf(p) == {u \in Users : Subscribed(u) /\ planOf[u] = p}

\* delete_plan: no such plan, a plan that subscribers use, or the row is
\* deleted.
RemovePlan(handler, p) ==
    /\ IF p \notin DOMAIN planPrice
       THEN /\ answer' = Response(handler, p, "not found")
            /\ UNCHANGED planPrice
       ELSE IF Cardinality(SubscribersOf(p)) > 0
       THEN /\ answer' = Response(handler, p, "in use")
            /\ UNCHANGED planPrice
       ELSE /\ answer' = Response(handler, p, "deleted")
            /\ planPrice' = [q \in DOMAIN planPrice \ {p} |-> planPrice[q]]
    /\ UNCHANGED <<dispatchVars, codeVars, replyVars, groupVars, quote,
                   checkout, planOf, deposits, deleted>>

\* DELETE /api/plans/<id>: 404, 400 or the plan is deleted.
DeletePlan(p) == RemovePlan("admin_routes.delete_plan", p)

\* admin_cli.py delete-plan --force
CliDeletePlan(p) == RemovePlan("admin_cli.delete_plan", p)

\* PUT /api/codes/<id> with max_uses and is_active in the body.
UpdateCode(c, maxUses, active) ==
    /\ codes' = [codes EXCEPT ![c].max_uses = maxUses, ![c].is_active = active]
    /\ UNCHANGED <<nonCodeVars, upc, chosen, readUses, priceVars>>

\* ------------------------------------------------------- group scheduling
\* Instants are in minutes. datetime.combine(date, time(hour, minute)) for
\* the day number `day`.
Combine(day, clock) == day * 1440 + clock[1] * 60 + clock[2]

\* The conversion that keeps only the whole hours of the offset.
LocalToUtcWholeHours(t, offset) == t - (offset \div 60) * 60

\* subscriber_local_time - timedelta(minutes=timezone_offset)
LocalToUtc(t, offset) == t - offset

\* msg.scheduled_time + timedelta(minutes=offset_minutes or 0)
UtcToLocal(t, offset) == t + offset

\* The query without its status filter.
InGroupAnyStatus(s, g) == group[s] = g

\* Subscriber.query.filter_by(group_id=group_id,
\* subscription_status='active')
InGroup(s, g) == group[s] = g /\ status[s] = "active"

Members(g) == {s \in SubIds : InGroup(s, g)}

\* use_timezone with the flag alone.
UseTimezoneFlagOnly(s) == tz[s].use_timezone_matching

\* use_timezone of schedule_group_messages
UseTimezone(s) ==
    /\ tz[s].use_timezone_matching
    /\ tz[s].message_delivery_preference = "scheduled_timezone"

\* The offset and label of a message when the creator keeps the defaults of
\* the columns.
SnapshotDefault(s) ==
    [timezone_offset_minutes |-> 0, timezone_label |-> "UTC"]

\* The subscriber's offset and label as the creator of a message reads them.
Snapshot(s) ==
    [timezone_offset_minutes |-> tz[s].timezone_offset_minutes,
     timezone_label |-> tz[s].timezone_label]

\* The message with the local time taken as UTC for every subscriber.
GroupMessageUtc(s, t) ==
    [NewMessage(s, "hello", t)
       EXCEPT !.timezone_offset_minutes = Snapshot(s).timezone_offset_minutes,
              !.timezone_label = Snapshot(s).timezone_label]

\* The ScheduledMessage that schedule_group_messages builds for subscriber s
\* and the local time t.
GroupMessage(s, t) ==
    [NewMessage(s, "hello", IF UseTimezone(s)
                            THEN LocalToUtc(t, tz[s].timezone_offset_minutes)
                            ELSE t)
       EXCEPT !.timezone_offset_minutes = Snapshot(s).timezone_offset_minutes,
              !.timezone_label = Snapshot(s).timezone_label]

RECURSIVE GroupBatch(_, _)
\* The messages of one call, one per active subscriber in the order of ids.
GroupBatch(subs, t) ==
    IF subs = {}
    THEN <<>>
    ELSE LET s == CHOOSE x \in subs : \A y \in subs : x <= y
         IN  <<GroupMessage(s, t)>> \o GroupBatch(subs \ {s}, t)

RECURSIVE OriginBatch(_, _)
OriginBatch(subs, t) ==
    IF subs = {}
    THEN <<>>
    ELSE LET s == CHOOSE x \in subs : \A y \in subs : x <= y
         IN  <<[local |-> t, matched |-> UseTimezone(s), via |-> "group",
                utcoffset |-> None]>>
             \o OriginBatch(subs \ {s}, t)

\* scheduled_times.get(message_type, '08:00')
TimeStr(g, type) ==
    IF times[g][type] = Missing THEN "08:00" ELSE times[g][type]

\* hour, minute = map(int, time_str.split(':')) raises ValueError on a text
\* that is not two integers around one colon.
Parsable(str) == str # "8am"

ParseClock(str) ==
    CASE str = "00:00" -> <<0, 0>>
      [] str = "08:00" -> <<8, 0>>
      [] str = "23:59" -> <<23, 59>>

\* datetime.combine(date, time(hour, minute)) of a call
LocalTime(g, type, day) == Combine(day, ParseClock(TimeStr(g, type)))

NoResult ==
    [outcome |-> "none", scheduled |-> 0, timezone_matched |-> 0,
     non_timezone_matched |-> 0, message_type |-> "", date |-> 0]

\* The call without the lookup of the group.
ExpandResultNoLookup(g, type, day) ==
    [NoResult EXCEPT !.outcome = "success", !.message_type = type,
                     !.date = day]

\* What schedule_group_messages(group_id, message_type, date=date) does when
\* nothing fails past the parsing of the time: {'error': 'Group not found',
\* 'scheduled': 0} for a group that is not there, ValueError for a time
\* that does not parse, the counts otherwise.
ExpandResult(g, type, day) ==
    IF g \notin Groups
    THEN [NoResult EXCEPT !.outcome = "error"]
    ELSE IF ~Parsable(TimeStr(g, type))
    THEN [NoResult EXCEPT !.outcome = "raised", !.message_type = type,
                          !.date = day]
    ELSE [outcome |-> "success",
          scheduled |-> Cardinality(Members(g)),
          timezone_matched |->
              Cardinality({s \in Members(g) : UseTimezone(s)}),
          non_timezone_matched |->
              Cardinality({s \in Members(g) : ~UseTimezone(s)}),
          message_type |-> type, date |-> day]

\* f"Good {message_type}! ..." (the emoji is left out)
Greeting(type) ==
    CASE type = "morning" -> "Good morning!"
      [] type = "noon" -> "Good noon!"
      [] type = "evening" -> "Good evening!"

\* final_message = message_text or A if message_type == 'morning' else B if
\* message_type == 'noon' else C: the conditional expression binds weaker
\* than `or`, so message_text is looked at for 'morning' only. The text ""
\* stands for no text (None and '' are both false).
FinalMessage(text, type) ==
    IF type = "morning"
    THEN IF text # "" THEN text ELSE Greeting(type)
    ELSE Greeting(type)

WithText(rows, text) ==
    [i \in 1..Len(rows) |-> [rows[i] EXCEPT !.message = text]]

\* The rows of a call that leaves out the subscribers who already have a
\* message of the same time and text.
ExpandRowsOnce(g, type, text, day) ==
    IF ExpandResult(g, type, day).outcome = "success"
    THEN SelectSeq(WithText(GroupBatch(Members(g), LocalTime(g, type, day)),
                            FinalMessage(text, type)),
                   LAMBDA row :
                       \A i \in 1..Len(msgs) :
                           \/ msgs[i].subscriber_id # row.subscriber_id
                           \/ msgs[i].scheduled_time # row.scheduled_time
                           \/ msgs[i].message # row.message)
    ELSE <<>>

\* The rows that a call with message_text = text commits.
ExpandRowsText(g, type, text, day) ==
    IF ExpandResult(g, type, day).outcome = "success"
    THEN WithText(GroupBatch(Members(g), LocalTime(g, type, day)),
                  FinalMessage(text, type))
    ELSE <<>>

\* The rows that a call without message_text commits, and where they come
\* from.
ExpandRows(g, type, day) == ExpandRowsText(g, type, "", day)

ExpandOrigins(g, type, day) ==
    IF ExpandResult(g, type, day).outcome = "success"
    THEN OriginBatch(Members(g), LocalTime(g, type, day))
    ELSE <<>>

\* schedule_group_messages(group_id, message_type, message_text, date=date):
\* one message for every active subscriber of the group, committed together.
Expand(g, type, text, day) ==
    /\ call.pc = "idle"
    /\ Len(msgs) + Len(ExpandRows(g, type, day)) <= MaxMsgs
    /\ msgs' = msgs \o ExpandRowsText(g, type, text, day)
    /\ origin' = origin \o ExpandOrigins(g, type, day)
    /\ result' = ExpandResult(g, type, day)
    /\ UNCHANGED <<status, now, pollerVars, logVars, codeVars, replyVars, adminVars,
                   priceVars, groupConf, listing, results, call>>

\* schedule_group_messages(group_id, message_type, date=date)
ScheduleGroupMessages(g, type, day) == Expand(g, type, "", day)

\* No call is running; dropped is the largest number of pending rows that a
\* rollback has discarded so far.
NoCall == [pc |-> "idle", group_id |-> 0, message_type |-> "", date |-> 0,
           subs |-> {}, todo |-> {}, added |-> <<>>, origins |-> <<>>,
           dropped |-> 0]

\* schedule_group_messages up to the loop: the session's transaction begins,
\* the group and its time are read and the subscribers are queried. A group
\* that is not there or a time that does not parse ends the call here.
BeginExpand(g, type, day) ==
    /\ call.pc = "idle"
    /\ Len(msgs) + Cardinality(Members(g)) <= MaxMsgs
    /\ IF ExpandResult(g, type, day).outcome = "success"
       THEN /\ call' = [call EXCEPT !.pc = "adding", !.group_id = g,
                                    !.message_type = type, !.date = day,
                                    !.subs = Members(g), !.todo = Members(g),
                                    !.added = <<>>, !.origins = <<>>]
            /\ UNCHANGED result
       ELSE /\ result' = ExpandResult(g, type, day)
            /\ UNCHANGED call
    /\ UNCHANGED <<dispatchVars, codeVars, replyVars, adminVars, priceVars, groupConf,
                   origin, listing, results>>

\* The subscriber that the loop handles next.
NextSubscriber == CHOOSE x \in call.todo : \A y \in call.todo : x <= y

\* The ScheduledMessage that the loop builds for that subscriber.
PendingRow ==
    [GroupMessage(NextSubscriber,
                  LocalTime(call.group_id, call.message_type, call.date))
       EXCEPT !.message = FinalMessage("", call.message_type)]

\* One turn of the loop with a commit of its own for the row.
AddRowCommitted ==
    /\ call.pc = "adding"
    /\ call.todo # {}
    /\ msgs' = Append(msgs, PendingRow)
    /\ origin' = origin
                 \o OriginBatch({NextSubscriber},
                                LocalTime(call.group_id, call.message_type,
                                          call.date))
    /\ call' = [call EXCEPT !.todo = @ \ {NextSubscriber}]
    /\ UNCHANGED <<status, now, pollerVars, logVars, codeVars, replyVars, adminVars,
                   priceVars, groupConf, listing, result, results>>

\* One turn of the loop: db.session.add(scheduled_msg). The row is pending
\* in the session of the call, no other session sees it.
AddRow ==
    /\ call.pc = "adding"
    /\ call.todo # {}
    /\ call' = [call EXCEPT
                  !.todo = @ \ {NextSubscriber},
                  !.added =
                      Append(@, PendingRow),
                  !.origins =
                      @ \o OriginBatch({NextSubscriber},
                                       LocalTime(call.group_id,
                                                 call.message_type,
                                                 call.date))]
    /\ UNCHANGED <<dispatchVars, codeVars, replyVars, adminVars, priceVars, groupConf,
                   origin, listing, result, results>>

\* An exception in the loop or in the commit: the block of
\* db.session.begin() rolls the transaction back, the pending rows are gone.
FailExpand ==
    /\ call.pc = "adding"
    /\ call' = [NoCall EXCEPT
                  !.dropped = Max(call.dropped, Len(call.added))]
    /\ result' = [NoResult EXCEPT !.outcome = "raised",
                                  !.message_type = call.message_type,
                                  !.date = call.date]
    /\ UNCHANGED <<dispatchVars, codeVars, replyVars, adminVars, priceVars, groupConf,
                   origin, listing, results>>

\* db.session.commit() after the loop, and the dict that is returned.
CommitBatch ==
    /\ call.pc = "adding"
    /\ call.todo = {}
    /\ msgs' = msgs \o call.added
    /\ origin' = origin \o call.origins
    /\ result' = [outcome |-> "success",
                  scheduled |-> Len(call.added),
                  timezone_matched |->
                      Cardinality({i \in 1..Len(call.origins) :
                                     call.origins[i].matched}),
                  non_timezone_matched |->
                      Cardinality({i \in 1..Len(call.origins) :
                                     ~call.origins[i].matched}),
                  message_type |-> call.message_type, date |-> call.date]
    /\ call' = [NoCall EXCEPT !.dropped = call.dropped]
    /\ UNCHANGED <<status, now, pollerVars, logVars, codeVars, replyVars, adminVars,
                   priceVars, groupConf, listing, results>>

NoResults == [via |-> "none", outcome |-> "none", keys |-> <<>>,
              values |-> <<>>]

RECURSIVE DailyFrom(_, _, _)
\* The loop of schedule_daily_group_messages from the k-th message type on:
\* the rows committed, the results stored by type, and whether a call raised
\* (which ends the loop, nothing catches it).
DailyFrom(g, day, k) ==
    IF k > Len(MessageTypes)
    THEN [rows |-> <<>>, origins |-> <<>>, keys |-> <<>>, values |-> <<>>,
          raised |-> FALSE]
    ELSE LET type == MessageTypes[k]
             r == ExpandResult(g, type, day)
         IN  IF r.outcome = "raised"
             THEN [rows |-> <<>>, origins |-> <<>>, keys |-> <<>>,
                   values |-> <<>>, raised |-> TRUE]
             ELSE LET rest == DailyFrom(g, day, k + 1)
                  IN  [rows |-> ExpandRows(g, type, day) \o rest.rows,
                       origins |->
                           ExpandOrigins(g, type, day) \o rest.origins,
                       keys |-> <<type>> \o rest.keys,
                       values |-> <<r>> \o rest.values,
                       raised |-> rest.raised]

\* schedule_daily_group_messages(group_id, date=date)
ScheduleDailyGroupMessages(g, day) ==
    LET run == DailyFrom(g, day, 1)
    IN  /\ call.pc = "idle"
        /\ Len(msgs) <= MaxStored
        /\ msgs' = msgs \o run.rows
        /\ origin' = origin \o run.origins
        /\ results' = [via |-> "daily",
                       outcome |-> IF run.raised THEN "raised"
                                                 ELSE "returned",
                       keys |-> run.keys, values |-> run.values]
        /\ UNCHANGED <<status, now, pollerVars, logVars, codeVars,
                       replyVars, adminVars, priceVars, groupConf, listing, result,
                       call>>

\* The loop left after its first day.
WeeklyFirstDay(g, start, d) ==
    LET daily == DailyFrom(g, start + d, 1)
    IN  [rows |-> daily.rows, origins |-> daily.origins,
         keys |-> IF daily.raised THEN <<>> ELSE <<start + d>>,
         values |-> IF daily.raised THEN <<>> ELSE <<daily.values>>,
         raised |-> daily.raised]

RECURSIVE WeeklyFrom(_, _, _)
\* The loop of schedule_weekly_group_messages from day_offset d on.
WeeklyFrom(g, start, d) ==
    IF d >= WeekDays
    THEN [rows |-> <<>>, origins |-> <<>>, keys |-> <<>>, values |-> <<>>,
          raised |-> FALSE]
    ELSE LET daily == DailyFrom(g, start + d, 1)
         IN  IF daily.raised
             THEN [rows |-> daily.rows, origins |-> daily.origins,
                   keys |-> <<>>, values |-> <<>>, raised |-> TRUE]
             ELSE LET rest == WeeklyFrom(g, start, d + 1)
                  IN  [rows |-> daily.rows \o rest.rows,
                       origins |-> daily.origins \o rest.origins,
                       keys |-> <<start + d>> \o rest.keys,
                       values |-> <<daily.values>> \o rest.values,
                       raised |-> rest.raised]

\* schedule_weekly_group_messages(group_id, start_date=start)
ScheduleWeeklyGroupMessages(g, start) ==
    LET run == WeeklyFrom(g, start, 0)
    IN  /\ call.pc = "idle"
        /\ Len(msgs) <= MaxStored
        /\ msgs' = msgs \o run.rows
        /\ origin' = origin \o run.origins
        /\ results' = [via |-> "weekly",
                       outcome |-> IF run.raised THEN "raised"
                                                 ELSE "returned",
                       keys |-> run.keys, values |-> run.values]
        /\ UNCHANGED <<status, now, pollerVars, logVars, codeVars,
                       replyVars, adminVars, priceVars, groupConf, listing, result,
                       call>>

\* The scheduled_time inputs: a wall-clock value with or without an offset.
ManualInputs ==
    {[wall |-> Combine(day, clock), utcoffset |-> o] :
        day \in 0..MaxDay, clock \in ClockTimes, o \in InputOffsets}

\* An aware input taken at its wall-clock value.
NormalizeKeepWall(input) == input.wall

\* parsed.astimezone(timezone.utc).replace(tzinfo=None), for an input that
\* carries an offset.
Normalize(input) == input.wall - input.utcoffset

\* The scheduled_time that schedule_sms (app.py) and the CLI's
\* schedule_message persist: a bare input minus the subscriber's offset.
RestScheduledUtc(s, input) ==
    IF input.utcoffset # None
    THEN Normalize(input)
    ELSE LocalToUtc(input.wall, tz[s].timezone_offset_minutes)

\* The scheduled_time that admin_schedule_message persists: a bare input is
\* converted only for a timezone-matched subscriber.
AdminScheduledUtc(s, input) ==
    IF input.utcoffset # None
    THEN Normalize(input)
    ELSE IF UseTimezone(s)
    THEN LocalToUtc(input.wall, tz[s].timezone_offset_minutes)
    ELSE input.wall

\* One message of subscriber s with the subscriber's offset kept in it, and
\* the entry point and input it came from.
AddManual(s, t, input, via) ==
    /\ status[s] # "absent"
    /\ Len(msgs) < MaxManual
    /\ msgs' = Append(msgs,
                      [NewMessage(s, "hello", t) EXCEPT
                         !.timezone_offset_minutes =
                             Snapshot(s).timezone_offset_minutes,
                         !.timezone_label = Snapshot(s).timezone_label])
    /\ origin' = Append(origin,
                        [local |-> input.wall, matched |-> UseTimezone(s),
                         via |-> via, utcoffset |-> input.utcoffset])
    /\ UNCHANGED <<status, now, pollerVars, logVars, codeVars, replyVars, adminVars,
                   priceVars, groupConf, listing, callVars>>

\* POST /api/subscribers/<id>/schedule-message
ScheduleSms(s, input) ==
    AddManual(s, RestScheduledUtc(s, input), input, "rest")

\* POST /admin/api/schedule-message
AdminScheduleMessage(s, input) ==
    AddManual(s, AdminScheduledUtc(s, input), input, "admin")

\* admin_cli.py schedule
CliScheduleMessage(s, input) ==
    AddManual(s, RestScheduledUtc(s, input), input, "cli")

\* The label that the bot keeps with an offset chosen on its keyboard.
LabelOf(offset) ==
    CASE offset = -300 -> "UTC-5"
      [] offset = 0 -> "UTC"
      [] offset = 330 -> "UTC+5:30"
      [] offset = 345 -> "UTC+5:45"
      [] offset = 525 -> "UTC+8:45"
      [] offset = 765 -> "UTC+12:45"

\* An update of the subscriber's timezone that also rewrites the offset and
\* the label kept in the subscriber's pending messages.
ChangeTimezoneRewrites(s, offset) ==
    /\ status[s] # "absent"
    /\ tz[s].timezone_offset_minutes # offset
    /\ tz' = [tz EXCEPT ![s].timezone_offset_minutes = offset,
                        ![s].timezone_label = LabelOf(offset)]
    /\ msgs' = [i \in 1..Len(msgs) |->
                  IF msgs[i].subscriber_id = s /\ ~msgs[i].sent
                  THEN [msgs[i] EXCEPT
                          !.timezone_offset_minutes = offset,
                          !.timezone_label = LabelOf(offset)]
                  ELSE msgs[i]]
    /\ UNCHANGED <<status, now, pollerVars, logVars, codeVars, replyVars,
                   adminVars, priceVars, group, times, origin, listing,
                   callVars>>

\* The timezone columns of subscriber s are updated in the database. (The
\* bot writes them when it creates the subscriber; no handler updates them
\* afterwards.)
ChangeTimezone(s, offset) ==
    /\ status[s] # "absent"
    /\ tz[s].timezone_offset_minutes # offset
    /\ tz' = [tz EXCEPT ![s].timezone_offset_minutes = offset,
                        ![s].timezone_label = LabelOf(offset)]
    /\ UNCHANGED <<dispatchVars, codeVars, replyVars, adminVars, priceVars, group, times,
                   origin, listing, callVars>>

\* The ids of the messages by scheduled_time, latest first.
ByTimeDesc(ms) ==
    CHOOSE f \in [1..Len(ms) -> 1..Len(ms)] :
        /\ \A i, j \in 1..Len(ms) : i # j => f[i] # f[j]
        /\ \A i, j \in 1..Len(ms) :
              i < j => \/ ms[f[i]].scheduled_time > ms[f[j]].scheduled_time
                       \/ /\ ms[f[i]].scheduled_time = ms[f[j]].scheduled_time
                          /\ f[i] < f[j]

\* GET /api/messages: every message with its time in UTC and in the local
\* time of the offset kept in the message.
GetMessagesList ==
    /\ listing' = [i \in 1..Len(msgs) |->
                     LET m == msgs[ByTimeDesc(msgs)[i]]
                     IN  [id |-> ByTimeDesc(msgs)[i],
                          scheduled_time |-> m.scheduled_time,
                          scheduled_time_local |->
                              UtcToLocal(m.scheduled_time,
                                         m.timezone_offset_minutes),
                          timezone_offset_minutes |->
                              m.timezone_offset_minutes,
                          timezone_label |-> m.timezone_label]]
    /\ UNCHANGED <<dispatchVars, codeVars, replyVars, adminVars, priceVars, groupConf,
                   origin, callVars>>

\* ---------------------------------------------------------- specifications
\* A database with one subscriber and no message; no cycle is running.
InitPollers ==
    /\ now = 0
    /\ pc = [p \in TwoPollers |-> "idle"]
    /\ cycleNow = [p \in TwoPollers |-> 0]
    /\ pending = [p \in TwoPollers |-> <<>>]
    /\ idx = [p \in TwoPollers |-> 1]
    /\ cache = [p \in TwoPollers |-> Unloaded]
    /\ outcome = [p \in TwoPollers |-> <<>>]
    /\ activeSeen = [p \in TwoPollers |-> {}]
    /\ skipped = FALSE
    /\ failCount = 0
    /\ delivered = [m \in MsgIds |-> 0]
    /\ crashes = 0

\* Subscribers as the bot creates them by default; nothing was scheduled for
\* a group nor listed.
DefaultTz ==
    [timezone_offset_minutes |-> 0, timezone_label |-> "UTC",
     use_timezone_matching |-> FALSE,
     message_delivery_preference |-> "scheduled"]

\* The settings that the bot stores for a subscriber.
Settings(offset, use, preference) ==
    [timezone_offset_minutes |-> offset, timezone_label |-> LabelOf(offset),
     use_timezone_matching |-> use,
     message_delivery_preference |-> preference]

\* The three times of a motivational group.
DefaultTimes ==
    [type \in {"morning", "noon", "evening"} |->
        CASE type = "morning" -> "08:00"
          [] type = "noon" -> "00:00"
          [] type = "evening" -> "23:59"]

\* Every subscriber belongs to group 1, which has the three times.
InitOneGroup ==
    /\ group = [s \in SubIds |-> 1]
    /\ times = [g \in Groups |-> DefaultTimes]

\* Nothing was scheduled nor listed, no call is running.
InitCalls ==
    /\ origin = <<>>
    /\ listing = <<>>
    /\ result = NoResult
    /\ results = NoResults
    /\ call = NoCall

InitGroup ==
    /\ tz = [s \in SubIds |-> DefaultTz]
    /\ InitOneGroup
    /\ InitCalls

\* Every user is at the discount-code step of the conversation.
\* No plan is selected in a conversation, there is no deposit to review and
\* no admin request was made.
InitAdmin ==
    /\ planOf = [u \in Users |-> None]
    /\ deposits = <<>>
    /\ answer = NoRequest
    /\ deleted = {}

InitUsers ==
    /\ upc = [u \in Users |-> "code"]
    /\ chosen = [u \in Users |-> 0]
    /\ readUses = [u \in Users |-> None]
    /\ quote = [u \in Users |-> NoQuote]
    /\ checkout = NoCheckout

MaxUsesValues == {None} \cup (0..MaxUsesLimit)

\* No discount code, no plan, nobody in a conversation with the bot.
InitNoCodes ==
    /\ codes = <<>>
    /\ planPrice = <<>>
    /\ upc = <<>>
    /\ chosen = <<>>
    /\ readUses = <<>>
    /\ quote = <<>>
    /\ checkout = NoCheckout
    /\ reply = NoAnswer
    /\ InitAdmin

Init ==
    /\ \E st \in Statuses :
          status = [s \in SubIds |-> IF s = 1 THEN st ELSE "absent"]
    /\ msgs = <<>>
    /\ InitPollers
    /\ InitNoCodes
    /\ InitGroup

\* One subscriber, no message, and one discount code as the admin created
\* it, unlimited or limited.
InitCodes ==
    /\ status = [s \in SubIds |-> IF s = 1 THEN "inactive" ELSE "absent"]
    /\ msgs = <<>>
    /\ InitPollers
    /\ \E mu \in MaxUsesValues \ {0} :
          codes = [c \in CodeIds |-> NewCode("SAVE1", "percent", 50, mu)]
    /\ InitUsers
    /\ reply = NoAnswer
    /\ InitAdmin
    /\ InitGroup
    /\ planPrice = [p \in PlanIds |-> 2]

Environment ==
    \/ Tick
    \/ \E s \in SubIds, text \in Texts, t \in 0..MaxTime :
          ScheduleMessage(s, text, t)
    \/ \E s \in SubIds : ApprovePayment(s)
    \/ \E s \in SubIds : RejectPayment(s)
    \/ \E s \in SubIds, st \in Statuses : UpdateStatus(s, st)

Cycle(p) ==
    \/ BeginCycle(p)
    \/ SkipInactive(p)
    \/ SendFailure(p)
    \/ SendSuccess(p)
    \/ CommitSent(p)
    \/ EndCycle(p)

\* The program as deployed: one poller.
Next ==
    \/ Environment
    \/ \E p \in OnePoller : Cycle(p)

Spec == Init /\ [][Next]_vars

\* The cron trigger keeps firing and a started cycle runs to its end; for
\* each message, the send capability does not fail forever.
Fairness ==
    /\ \A p \in OnePoller : WF_vars(Cycle(p))
    /\ \A p \in OnePoller, m \in MsgIds :
          SF_vars(SendSuccess(p) /\ CurrentMsg(p) = m)

SpecLive == Init /\ [][Next]_vars /\ Fairness

Times == {None} \cup (0..MaxTime)

\* A discount code in any state the admin's creations and updates and the
\* redemptions can leave it in.
InitValidate ==
    /\ status = [s \in SubIds |-> IF s = 1 THEN "inactive" ELSE "absent"]
    /\ msgs = <<>>
    /\ InitPollers
    /\ \E active \in BOOLEAN, mu \in MaxUsesValues, cu \in 0..MaxUsesLimit,
          vf \in Times, vu \in Times, pt \in PlanTexts :
          codes = [c \in CodeIds |->
                     [NewCode("SAVE1", "percent", 50, mu) EXCEPT
                        !.is_active = active, !.current_uses = cu,
                        !.valid_from = vf, !.valid_until = vu,
                        !.applicable_plan_ids = pt]]
    /\ InitUsers
    /\ reply = NoAnswer
    /\ InitAdmin
    /\ InitGroup
    /\ planPrice = [p \in PlanIds |-> 2]

\* Validations of codes through the admin API while time passes.
NextValidate ==
    \/ Tick
    \/ \E text \in Inputs \cup {""}, plan_id \in PlanInputs :
          ValidateCode(text, plan_id)

SpecValidate == InitValidate /\ [][NextValidate]_vars

\* The conversations of the bot (one event loop) and the admin's edits of
\* the code.
NextCodes ==
    \/ \E u \in Users, text \in Inputs, plan_id \in PlanIds :
          EnterCode(u, text, plan_id)
    \/ \E u \in Users, plan_id \in PlanIds : SkipCode(u, plan_id)
    \/ \E u \in Users : ProcessSubscription(u)
    \/ \E u \in Users : StartOver(u)
    \/ \E c \in CodeIds, mu \in MaxUsesValues, active \in BOOLEAN :
          UpdateCode(c, mu, active)

SpecCodes == InitCodes /\ [][NextCodes]_vars

\* A code of either kind with any value the admin API accepts, plans of any
\* price.
InitPricing ==
    /\ status = [s \in SubIds |-> IF s = 1 THEN "inactive" ELSE "absent"]
    /\ msgs = <<>>
    /\ InitPollers
    /\ \E kind \in Kinds :
          \E value \in IF kind = "percent" THEN 0..MaxPercent ELSE 0..MaxFixed :
             codes = [c \in CodeIds |-> NewCode("SAVE1", kind, value, None)]
    /\ InitUsers
    /\ reply = NoAnswer
    /\ InitAdmin
    /\ InitGroup
    /\ planPrice \in [PlanIds -> 0..MaxPrice]

\* Two subscribers of any status, no deposit to review.
InitApprovals ==
    /\ status \in [SubIds -> Statuses]
    /\ msgs = <<>>
    /\ InitPollers
    /\ InitNoCodes
    /\ InitGroup

\* The admin's reviews of payments and deposits, the deposits that
\* subscribers ask a review for, and the other writes of the status.
NextApprovals ==
    \/ \E s \in SubIds : CreateDeposit(s)
    \/ \E s \in SubIds : ApproveSubscriberPayment(s)
    \/ \E s \in SubIds : RejectSubscriberPayment(s)
    \/ \E d \in 1..MaxDeposits : ApproveDeposit(d)
    \/ \E d \in 1..MaxDeposits : RejectDeposit(d)
    \/ \E s \in SubIds, st \in Statuses : UpdateStatus(s, st)

SpecApprovals == InitApprovals /\ [][NextApprovals]_vars

\* Two subscribers, 'active' or 'inactive', and no message.
InitDelete ==
    /\ status \in [SubIds -> {"active", "inactive"}]
    /\ msgs = <<>>
    /\ InitPollers
    /\ InitNoCodes
    /\ InitGroup

\* The dispatcher's cycle, messages being scheduled and subscribers being
\* deleted while it runs.
NextDelete ==
    \/ Tick
    \/ \E s \in SubIds, t \in 0..MaxTime : ScheduleMessage(s, "hello", t)
    \/ \E s \in SubIds : DeleteSubscriber(s)
    \/ \E s \in SubIds : CliDeleteSubscriber(s)
    \/ \E p \in OnePoller :
          \/ BeginCycle(p)
          \/ SkipInactive(p)
          \/ SendFailure(p)
          \/ SendSuccess(p)
          \/ CommitSent(p)
          \/ OwnerGone(p)
          \/ CommitGone(p)
          \/ EndCycle(p)

SpecDelete == InitDelete /\ [][NextDelete]_vars

\* The users who talk to the bot while plans are deleted.
TwoUsers == {1, 2}

\* Two plans at their prices, one discount code, every user about to select
\* a plan, nobody subscribed.
InitPlans ==
    /\ status = [s \in SubIds |-> "absent"]
    /\ msgs = <<>>
    /\ InitPollers
    /\ codes = [c \in CodeIds |-> NewCode("SAVE1", "percent", MaxPercent, None)]
    /\ upc = [u \in Users |-> "plan"]
    /\ chosen = [u \in Users |-> 0]
    /\ readUses = [u \in Users |-> None]
    /\ quote = [u \in Users |-> NoQuote]
    /\ checkout = NoCheckout
    /\ reply = NoAnswer
    /\ InitAdmin
    /\ InitGroup
    /\ planPrice \in [PlanIds -> {MaxPrice}]

\* The conversations of the bot from the selection of a plan to the
\* creation of the subscriber, and the admin's deletions of plans.
NextPlans ==
    \/ \E u \in TwoUsers, p \in PlanIds : SelectPlan(u, p)
    \/ \E u \in TwoUsers, text \in Inputs :
          upc[u] = "code" /\ EnterCode(u, text, planOf[u])
    \/ \E u \in TwoUsers : upc[u] = "code" /\ SkipCode(u, planOf[u])
    \/ \E u \in TwoUsers : ProcessSubscription(u)
    \/ \E p \in PlanIds : DeletePlan(p)
    \/ \E p \in PlanIds : CliDeletePlan(p)

SpecPlans == InitPlans /\ [][NextPlans]_vars

\* One user's conversation from the discount code to the checkout.
NextPricing ==
    \/ \E u \in OneUser, text \in Inputs, plan_id \in PlanIds :
          EnterCode(u, text, plan_id)
    \/ \E u \in OneUser, plan_id \in PlanIds : SkipCode(u, plan_id)
    \/ \E u \in OneUser : ProcessSubscription(u)
    \/ \E u \in OneUser : StartOver(u)

SpecPricing == InitPricing /\ [][NextPricing]_vars

\* Two subscribers of a group, active or not: the first with any timezone
\* settings, the second west of UTC and timezone-matched.
InitSchedule ==
    /\ status \in [SubIds -> {"inactive", "active"}]
    /\ msgs = <<>>
    /\ InitPollers
    /\ codes = [c \in CodeIds |-> NewCode("SAVE1", "percent", 50, None)]
    /\ InitUsers
    /\ reply = NoAnswer
    /\ InitAdmin
    /\ planPrice = [p \in PlanIds |-> 2]
    /\ \E offset \in Offsets, use \in BOOLEAN, preference \in Preferences :
          tz = [s \in SubIds |->
                  IF s = 1
                  THEN Settings(offset, use, preference)
                  ELSE Settings(-300, TRUE, "scheduled_timezone")]
    /\ InitOneGroup
    /\ InitCalls

\* The admin schedules group messages for a day and lists the messages.
NextSchedule ==
    \/ \E type \in {"morning", "noon", "evening"}, day \in 0..MaxDay :
          ScheduleGroupMessages(1, type, day)
    \/ GetMessagesList

SpecSchedule == InitSchedule /\ [][NextSchedule]_vars

\* One subscriber west or east of UTC with any preference, no message.
InitManual ==
    /\ status = [s \in SubIds |-> IF s = 1 THEN "active" ELSE "absent"]
    /\ msgs = <<>>
    /\ InitPollers
    /\ InitNoCodes
    /\ \E offset \in {-300, 330}, use \in BOOLEAN, preference \in Preferences :
          tz = [s \in SubIds |-> Settings(offset, use, preference)]
    /\ InitOneGroup
    /\ InitCalls

\* Messages scheduled by hand through the three entry points, and listed.
NextManual ==
    \/ \E s \in SubIds, input \in ManualInputs : ScheduleSms(s, input)
    \/ \E s \in SubIds, input \in ManualInputs : AdminScheduleMessage(s, input)
    \/ \E s \in SubIds, input \in ManualInputs : CliScheduleMessage(s, input)
    \/ GetMessagesList

SpecManual == InitManual /\ [][NextManual]_vars

\* Two subscribers, active or not, in either group; the first is at UTC-5
\* with any preference, the second is timezone-matched at UTC+5:30. Group 2
\* has no morning time and a noon time that does not parse.
InitExpand ==
    /\ \E first \in {"active", "pending"}, second \in {"active", "inactive"} :
          status = [s \in SubIds |-> IF s = 1 THEN first ELSE second]
    /\ msgs = <<>>
    /\ InitPollers
    /\ InitNoCodes
    /\ \E use \in BOOLEAN, preference \in Preferences :
          tz = [s \in SubIds |->
                  IF s = 1
                  THEN Settings(-300, use, preference)
                  ELSE Settings(330, TRUE, "scheduled_timezone")]
    /\ group \in [SubIds -> Groups]
    /\ times = [g \in Groups |->
                  IF g = 1
                  THEN DefaultTimes
                  ELSE [DefaultTimes EXCEPT !["morning"] = Missing,
                                            !["noon"] = "8am"]]
    /\ InitCalls

\* The admin schedules one type of message for a group, with no date: the
\* call takes datetime.utcnow().date().
NextExpand ==
    \E g \in GroupInputs, type \in {"morning", "noon", "evening"} :
        ScheduleGroupMessages(g, type, Today)

SpecExpand == InitExpand /\ [][NextExpand]_vars

\* The first subscriber is active, the second is active or not and in either
\* group; each time of group 1 is a time, a text that does not parse, or
\* missing.
InitDaily ==
    /\ \E second \in {"active", "inactive"} :
          status = [s \in SubIds |-> IF s = 1 THEN "active" ELSE second]
    /\ msgs = <<>>
    /\ InitPollers
    /\ InitNoCodes
    /\ \E use \in BOOLEAN :
          tz = [s \in SubIds |->
                  IF s = 1
                  THEN Settings(-300, use, "scheduled_timezone")
                  ELSE Settings(330, TRUE, "scheduled_timezone")]
    /\ \E g \in Groups : group = [s \in SubIds |-> IF s = 1 THEN 1 ELSE g]
    /\ \E config \in [{"morning", "noon", "evening"} ->
                         {"08:00", "8am", Missing}] :
          times = [g \in Groups |-> IF g = 1 THEN config ELSE DefaultTimes]
    /\ InitCalls

\* The admin schedules the three messages of a day for a group.
NextDaily ==
    \E g \in GroupInputs, day \in 0..MaxDay :
        ScheduleDailyGroupMessages(g, day)

SpecDaily == InitDaily /\ [][NextDaily]_vars

\* As InitDaily, with the times of group 1 all set, or the noon time not
\* parsing, or the morning time missing.
InitWeekly ==
    /\ \E second \in {"active", "inactive"} :
          status = [s \in SubIds |-> IF s = 1 THEN "active" ELSE second]
    /\ msgs = <<>>
    /\ InitPollers
    /\ InitNoCodes
    /\ \E use \in BOOLEAN :
          tz = [s \in SubIds |->
                  IF s = 1
                  THEN Settings(-300, use, "scheduled_timezone")
                  ELSE Settings(330, TRUE, "scheduled_timezone")]
    /\ \E g \in Groups : group = [s \in SubIds |-> IF s = 1 THEN 1 ELSE g]
    /\ \E config \in {DefaultTimes,
                       [DefaultTimes EXCEPT !["noon"] = "8am"],
                       [DefaultTimes EXCEPT !["morning"] = Missing]} :
          times = [g \in Groups |-> IF g = 1 THEN config ELSE DefaultTimes]
    /\ InitCalls

\* The messages of a week are scheduled for a group.
NextWeekly ==
    \E g \in GroupInputs, start \in 0..MaxDay :
        ScheduleWeeklyGroupMessages(g, start)

SpecWeekly == InitWeekly /\ [][NextWeekly]_vars

\* Group 1 with its three times and one or two active members.
InitBatch ==
    /\ \E second \in {"active", "inactive"} :
          status = [s \in SubIds |-> IF s = 1 THEN "active" ELSE second]
    /\ msgs = <<>>
    /\ InitPollers
    /\ InitNoCodes
    /\ \E use \in BOOLEAN :
          tz = [s \in SubIds |->
                  IF s = 1
                  THEN Settings(-300, use, "scheduled_timezone")
                  ELSE Settings(330, TRUE, "scheduled_timezone")]
    /\ InitOneGroup
    /\ InitCalls

\* schedule_group_messages step by step, next to the dispatcher.
NextBatch ==
    \/ \E g \in GroupInputs, type \in {"morning", "noon", "evening"} :
          BeginExpand(g, type, Today)
    \/ AddRow
    \/ FailExpand
    \/ CommitBatch
    \/ \E p \in OnePoller :
          BeginCycle(p) \/ SendSuccess(p) \/ CommitSent(p) \/ EndCycle(p)

SpecBatch == InitBatch /\ [][NextBatch]_vars

\* Messages are created for a subscriber by the group scheduling and by the
\* REST endpoint, the subscriber's timezone changes, the messages are listed.
NextSnapshot ==
    \/ \E type \in {"morning", "noon", "evening"} :
          ScheduleGroupMessages(1, type, Today)
    \/ \E s \in SubIds,
          input \in {i \in ManualInputs :
                       i.utcoffset = None /\ i.wall = Combine(Today, <<8, 0>>)} :
          ScheduleSms(s, input)
    \/ \E s \in SubIds, offset \in {0, 330} : ChangeTimezone(s, offset)
    \/ GetMessagesList

SpecSnapshot == InitManual /\ [][NextSnapshot]_vars

\* The admin schedules one type of message for a group, with a text of the
\* admin's or without.
NextText ==
    \E g \in GroupInputs, type \in {"morning", "noon", "evening"},
       text \in TextInputs :
        Expand(g, type, text, Today)

SpecText == InitExpand /\ [][NextText]_vars

\* The admin schedules messages for group 1, more than once for the same
\* type and day, and the dispatcher runs.
NextRepeat ==
    \/ Tick
    \/ \E type \in {"morning", "noon", "evening"} :
          ScheduleGroupMessages(1, type, Today)
    \/ \E p \in OnePoller :
          BeginCycle(p) \/ SendSuccess(p) \/ CommitSent(p) \/ EndCycle(p)

SpecRepeat == InitBatch /\ [][NextRepeat]_vars

\* Every operation that reads or writes scheduled_messages or the rows that
\* a message refers to: the group scheduling and schedule_message create
\* messages, the dispatcher sends them, the subscribers' status and timezone
\* change, subscribers are deleted.
NextStore ==
    \/ ScheduleGroupMessages(1, "noon", Today)
    \/ \E s \in SubIds : ScheduleMessage(s, "hello", now)
    \/ \E s \in SubIds : ChangeTimezone(s, 0)
    \/ \E s \in SubIds, st \in {"active", "inactive"} : UpdateStatus(s, st)
    \/ \E s \in SubIds : DeleteSubscriber(s)
    \/ \E p \in OnePoller :
          \/ BeginCycle(p)
          \/ SkipInactive(p)
          \/ SendFailure(p)
          \/ SendSuccess(p)
          \/ CommitSent(p)
          \/ OwnerGone(p)
          \/ CommitGone(p)
          \/ EndCycle(p)

\* One subscriber, timezone-matched at +05:30, in the group; no message.
InitStore ==
    /\ status = [s \in SubIds |-> IF s = 1 THEN "active" ELSE "absent"]
    /\ msgs = <<>>
    /\ InitPollers
    /\ InitNoCodes
    /\ tz = [s \in SubIds |-> Settings(330, TRUE, "scheduled_timezone")]
    /\ InitOneGroup
    /\ InitCalls

SpecStore == InitStore /\ [][NextStore]_vars

\* Users who come one after the other: nobody enters a code while another
\* user's validated code is waiting for the creation of the subscriber.
NextSerial ==
    \/ \E u \in Users, text \in Inputs, plan_id \in PlanIds :
          /\ \A v \in Users \ {u} : upc[v] # "pay"
          /\ EnterCode(u, text, plan_id)
    \/ \E u \in Users, plan_id \in PlanIds :
          /\ \A v \in Users \ {u} : upc[v] # "pay"
          /\ SkipCode(u, plan_id)
    \/ \E u \in Users : ProcessSubscription(u)
    \/ \E u \in Users : StartOver(u)

SpecSerial == InitCodes /\ [][NextSerial]_vars

\* Subscription creations that run in sessions of their own (more than one
\* bot process against the database): the read of the code row and the
\* commit of the increment are separate steps.
NextSessions ==
    \/ \E u \in Users, text \in Inputs, plan_id \in PlanIds :
          EnterCode(u, text, plan_id)
    \/ \E u \in Users, plan_id \in PlanIds : SkipCode(u, plan_id)
    \/ \E u \in Users : CreateSubscriber(u)
    \/ \E u \in Users : LoadCode(u)
    \/ \E u \in Users : CommitIncrement(u)

SpecSessions == InitCodes /\ [][NextSessions]_vars

\* One poller whose cycle can be aborted; the subscriber keeps its status.
NextCrash ==
    \/ Tick
    \/ \E s \in SubIds, text \in Texts, t \in 0..MaxTime :
          ScheduleMessage(s, text, t)
    \/ \E p \in OnePoller : Cycle(p)
    \/ \E p \in OnePoller : Crash(p)

SpecCrash == Init /\ [][NextCrash]_vars

\* Two pollers against the same store; the subscriber keeps its status.
NextPollers ==
    \/ Tick
    \/ \E s \in SubIds, text \in Texts, t \in 0..MaxTime :
          ScheduleMessage(s, text, t)
    \/ \E p \in TwoPollers : Cycle(p)

SpecPollers == Init /\ [][NextPollers]_vars

\* ------------------------------------------------------------ properties
Range(f) == {f[i] : i \in DOMAIN f}

InCycle(p) == pc[p] \in {"loop", "commit"}

Owner(m) == msgs[m].subscriber_id

\* This step, poller p handed message m to the send capability.
AttemptStep(p, m) ==
    /\ Len(outcome'[p]) = Len(outcome[p]) + 1
    /\ outcome'[p][Len(outcome'[p])] \in {"failed", "sent"}
    /\ pending[p][Len(outcome'[p])] = m

\* This step, the send capability returned False to poller p for message m.
FailStep(p, m) ==
    /\ Len(outcome'[p]) = Len(outcome[p]) + 1
    /\ outcome'[p][Len(outcome'[p])] = "failed"
    /\ pending[p][Len(outcome'[p])] = m

C2_DueQueryExact ==
    [][/\ \A p \in TwoPollers :
            (pc[p] \in {"idle", "crashed"} /\ pc'[p] = "loop") =>
                /\ cycleNow'[p] = now
                /\ Range(pending'[p]) =
                      {m \in 1..Len(msgs) : /\ msgs[m].sent = FALSE
                                            /\ msgs[m].scheduled_time <= now}
       /\ \A m \in 1..Len(msgs) :
            /\ \A p \in TwoPollers :
                  AttemptStep(p, m) => msgs[m].scheduled_time <= cycleNow[p]
            /\ (msgs[m].sent = FALSE /\ msgs'[m].sent = TRUE) =>
                  \E p \in TwoPollers :
                      /\ pc[p] = "commit" /\ CurrentMsg(p) = m
                      /\ msgs[m].scheduled_time <= cycleNow[p]]_vars

\* A running cycle selected a due message and left out an unsent message
\* whose time was still in the future when the cycle started.
C2_Witness ==
    \E p \in TwoPollers :
        /\ InCycle(p) /\ Len(pending[p]) >= 1
        /\ \E m \in 1..Len(msgs) :
              /\ msgs[m].sent = FALSE
              /\ msgs[m].scheduled_time > cycleNow[p]
              /\ m \notin Range(pending[p])
              /\ m < pending[p][1]

\* C3: a message goes only from pending to sent (with sent_at set); once
\* sent = true its row never changes again and it is never handed to the
\* send capability again.
C3_SentIsTerminal ==
    [][\A m \in 1..Len(msgs) :
          /\ msgs[m].sent = TRUE =>
                /\ msgs'[m] = msgs[m]
                /\ delivered'[m] = delivered[m]
                /\ \A p \in TwoPollers : ~AttemptStep(p, m)
          /\ msgs[m].sent = FALSE =>
                /\ msgs[m].sent_at = None
                /\ msgs'[m].sent = TRUE => msgs'[m].sent_at # None]_vars

\* A later cycle is running, with work of its own, after a message was sent.
C3_Witness ==
    \E p \in TwoPollers, m \in 1..Len(msgs) :
        /\ msgs[m].sent = TRUE
        /\ pc[p] = "loop" /\ Len(outcome[p]) >= 1
        /\ m \notin Range(pending[p])

\* C4: when the send capability returns False the whole row is left as it
\* was (unsent, no sent_at, same time and text) and it still satisfies the
\* pending query.
C4_FailureLeavesPending ==
    [][\A p \in TwoPollers, m \in 1..Len(msgs) :
          FailStep(p, m) =>
              /\ msgs' = msgs
              /\ msgs'[m].sent = FALSE
              /\ msgs'[m].sent_at = None
              /\ msgs'[m].scheduled_time <= now']_vars

\* The only message there is has failed MaxFailures times, in as many
\* cycles, and is selected once more.
C4_Witness ==
    \E p \in TwoPollers :
        /\ Len(msgs) = 1 /\ failCount = MaxFailures
        /\ pc[p] = "loop" /\ idx[p] = 1 /\ pending[p] = <<1>>

\* C5: under fair repeated polling, a message whose time has passed and whose
\* owner is from some moment on active is eventually marked sent, whatever
\* the owner's status was when the message was queued and however it
\* changed before.
C5_EventualDelivery ==
    \A m \in MsgIds :
        <>[](/\ m <= Len(msgs)
             /\ msgs[m].scheduled_time <= now
             /\ status[Owner(m)] = "active")
        => <>(m <= Len(msgs) /\ msgs[m].sent = TRUE)

\* The only message there is was skipped by a cycle while its owner was not
\* active, and is now sent.
C5_Witness ==
    /\ Len(msgs) = 1 /\ skipped = TRUE
    /\ msgs[1].sent = TRUE

\* C6: of the messages whose send succeeded in a cycle, only the one in
\* flight (send returned, commit not done) can be unsent in the store,
\* also after the cycle was aborted.
C6_PerMessageCommit ==
    \A p \in TwoPollers :
        \A i \in 1..Len(outcome[p]) :
            outcome[p][i] = "sent" =>
                \/ msgs[pending[p][i]].sent = TRUE
                \/ i = idx[p]

\* A cycle was aborted between the send and the commit of its second
\* message: the first is sent in the store, the second is not.
C6_Witness ==
    \E p \in TwoPollers :
        /\ pc[p] = "crashed" /\ idx[p] = 2 /\ Len(outcome[p]) = 2
        /\ outcome[p][1] = "sent" /\ outcome[p][2] = "sent"
        /\ msgs[pending[p][1]].sent = TRUE
        /\ msgs[pending[p][2]].sent = FALSE

\* C7: nothing between the query and the send looks at the store again: a
\* poller that holds a message of an active subscriber in its list hands it
\* to the send capability even when another poller has marked it sent.
C7_NoClaimBeforeSend ==
    [][\A p \in TwoPollers :
          ( /\ InLoop(p)
            /\ msgs[CurrentMsg(p)].sent = TRUE
            /\ status[Owner(CurrentMsg(p))] = "active"
            /\ Len(outcome'[p]) = Len(outcome[p]) + 1 )
          => outcome'[p][Len(outcome'[p])] \in {"failed", "sent"}]_vars

\* The double send: the send capability has returned True twice for one
\* message.
C7_Witness ==
    \E m \in 1..Len(msgs) : delivered[m] = 2 /\ msgs[m].sent = TRUE

Redeemed(c) == {u \in Users : upc[u] = "done" /\ chosen[u] = c}

\* C8: two subscription creations that race for the last use of a code with
\* max_uses = 1: at most one of them is created with the code, and
\* current_uses never becomes 2.
C8_LastUseRedeemedOnce ==
    \A c \in CodeIds :
        codes[c].max_uses = 1 =>
            /\ codes[c].current_uses # 2
            /\ Cardinality(Redeemed(c)) <= 1

\* C11: current_uses never decreases and grows by exactly one for each
\* subscriber row that is committed with the code: a step adds to
\* current_uses the number of users whose subscriber is created in that step
\* with this code, so a failed creation and a second run for an existing
\* subscriber add nothing.
C11_UsageAccounting ==
    [][\A c \in CodeIds :
          codes'[c].current_uses =
              codes[c].current_uses
              + Cardinality({u \in Users : /\ upc[u] # "done"
                                           /\ upc'[u] = "done"
                                           /\ chosen[u] = c})]_vars

\* One user was created with the code, another one's creation with the same
\* code failed.
C11_Witness ==
    \E u, v \in Users :
        /\ upc[u] = "done" /\ chosen[u] = 1
        /\ upc[v] = "failed" /\ chosen[v] = 1
        /\ codes[1].current_uses = 1

\* The conditions of a validation in the order of the specification, each
\* with its error message, as the code decides them.
Conditions(dc, plan_id, t) ==
    << <<~dc.is_active, "Discount code is not active">>,
       <<Truthy(dc.max_uses) /\ dc.current_uses >= dc.max_uses,
         "Discount code has reached maximum uses">>,
       <<dc.valid_from # None /\ t < dc.valid_from,
         "Discount code is not yet valid">>,
       <<dc.valid_until # None /\ t > dc.valid_until,
         "Discount code has expired">>,
       <<dc.applicable_plan_ids # "" /\ Truthy(plan_id)
           /\ plan_id \notin PlanIdsOf(dc.applicable_plan_ids),
         "Discount code is not applicable to this plan">> >>

Answered == reply.error \notin {"no request", "Code is required"}

\* C12: a validation upper-cases the text and looks the code up by exact
\* match, answering "not found" when there is none; for a found code the
\* error is that of the first violated condition in the order inactive,
\* exhausted, not yet valid, expired, not applicable; it is valid when none
\* is violated.
C12_ValidationOrder ==
    Answered =>
        LET found == {c \in CodeIds : codes[c].code = Upper(reply.text)}
            conds == Conditions(codes[reply.id], reply.plan_id, reply.at)
            bad   == {i \in 1..Len(conds) : conds[i][1]}
        IN  IF found = {}
            THEN ~reply.valid /\ reply.error = "Discount code not found"
            ELSE /\ reply.id \in found
                 /\ reply.valid <=> bad = {}
                 /\ bad # {} =>
                       \E i \in bad : /\ \A j \in bad : i <= j
                                      /\ reply.error = conds[i][2]

\* A code that is inactive, exhausted, expired and not applicable at once
\* was validated from lower-case text.
C12_Witness ==
    /\ Answered /\ reply.id = 1 /\ reply.text = "save1"
    /\ LET conds == Conditions(codes[1], reply.plan_id, reply.at)
       IN  Cardinality({i \in 1..Len(conds) : conds[i][1]}) >= 4

\* C13: for an otherwise valid code with max_uses = N (N >= 1, so that N-1
\* is a use count), redeemed by validate-then-increment one user after the
\* other: a validation answers "maximum uses" exactly when current_uses = N,
\* it still succeeds at every current_uses < N (N-1 included), and
\* current_uses never passes N, so exactly N redemptions succeed.
C13_ExhaustionBoundary ==
    [][\A c \in CodeIds :
          LET dc == codes[c]
              N  == dc.max_uses
          IN  (N # None /\ N >= 1) =>
                /\ codes'[c].current_uses <= N
                /\ Cardinality({u \in Users : upc'[u] = "done"
                                               /\ chosen'[u] = c}) <= N
                /\ ( /\ \E u \in Users, text \in Inputs, plan_id \in PlanIds :
                           EnterCode(u, text, plan_id)
                     /\ reply'.id = c )
                   => /\ reply'.error = "Discount code has reached maximum uses"
                           <=> dc.current_uses = N
                      /\ dc.current_uses < N => reply'.valid
                      /\ reply'.valid => dc.current_uses < N]_vars

\* A code with max_uses = 2 was redeemed by two users and then refused to the
\* third.
C13_Witness ==
    /\ codes[1].max_uses = 2 /\ codes[1].current_uses = 2
    /\ Cardinality({u \in Users : upc[u] = "done" /\ chosen[u] = 1}) = 2
    /\ reply.id = 1
    /\ reply.error = "Discount code has reached maximum uses"

\* C14: a validation of an active code whose max_uses is set (any number,
\* 0 included) and whose current_uses >= max_uses fails with "maximum uses".
C14_ExhaustedWheneverSet ==
    (Answered /\ reply.id \in CodeIds) =>
        LET dc == codes[reply.id]
        IN  ( /\ dc.is_active
              /\ dc.max_uses # None
              /\ dc.current_uses >= dc.max_uses )
            => /\ ~reply.valid
               /\ reply.error = "Discount code has reached maximum uses"

\* C15: a validation at the instant valid_until is not refused as expired
\* and one at the instant valid_from is not refused as not yet valid; an
\* absent bound never refuses: "not yet valid" is answered only strictly
\* before valid_from, "expired" only strictly after valid_until, and a code
\* that passes the other conditions is valid anywhere in the closed window.
C15_WindowBoundaries ==
    (Answered /\ reply.id \in CodeIds) =>
        LET dc == codes[reply.id]
            t  == reply.at
        IN  /\ reply.error = "Discount code is not yet valid"
                 => (dc.valid_from # None /\ t < dc.valid_from)
            /\ reply.error = "Discount code has expired"
                 => (dc.valid_until # None /\ t > dc.valid_until)
            /\ ( /\ dc.is_active
                 /\ dc.max_uses = None
                 /\ dc.applicable_plan_ids = ""
                 /\ dc.valid_from = None \/ dc.valid_from <= t
                 /\ dc.valid_until = None \/ t <= dc.valid_until )
               => reply.valid

\* A code was found valid at the instant that is both its valid_from and its
\* valid_until.
C15_Witness ==
    /\ Answered /\ reply.id = 1 /\ reply.valid
    /\ codes[1].valid_until = reply.at
    /\ codes[1].valid_from = reply.at

\* C16: a validation that passes the earlier conditions fails with "not
\* applicable to this plan" exactly when a plan_id is given and the parsed
\* set of the code's plan list is non-empty and does not hold plan_id; a
\* list that is absent or parses to the empty set passes for every plan_id.
C16_PlanApplicability ==
    (Answered /\ reply.id \in CodeIds) =>
        LET dc  == codes[reply.id]
            ids == PlanIdsOf(dc.applicable_plan_ids)
            earlier == {"Discount code is not active",
                        "Discount code has reached maximum uses",
                        "Discount code is not yet valid",
                        "Discount code has expired"}
        IN  reply.error \notin earlier =>
              /\ reply.error = "Discount code is not applicable to this plan"
                   <=> ( /\ reply.plan_id # None
                         /\ ids # {}
                         /\ reply.plan_id \notin ids )
              /\ ids = {} => reply.valid

Priced(u) == chosen[u] # 0 /\ quote[u].final_price # None

\* C17: for a fixed code of value v >= 0 and a base price p >= 0, in cents,
\* the final price is max(0, p - v): never negative, and 0 when v > p.
C17_FixedDiscount ==
    \A u \in Users :
        (Priced(u) /\ codes[chosen[u]].discount_type = "fixed") =>
            LET v == codes[chosen[u]].discount_value
                p == quote[u].base_price
            IN  /\ quote[u].final_price = (IF p - v > 0 THEN p - v ELSE 0)
                /\ quote[u].final_price >= 0

\* A fixed discount larger than the positive price of the plan gave a final
\* price of 0.
C17_Witness ==
    \E u \in Users :
        /\ Priced(u) /\ codes[chosen[u]].discount_type = "fixed"
        /\ quote[u].base_price > 0
        /\ codes[chosen[u]].discount_value > quote[u].base_price
        /\ quote[u].final_price = 0

\* C18: for a percent code of value v in 0..100 and a base price p >= 0 the
\* final price is p*(1 - v/100) rounded to the cent, the discount amount is
\* p - final, so that final + amount = p, and 0 <= final <= p; v = 100 gives
\* 0 and v = 0 gives p.
C18_PercentDiscount ==
    \A u \in Users :
        (Priced(u) /\ codes[chosen[u]].discount_type = "percent") =>
            LET v == codes[chosen[u]].discount_value
                p == quote[u].base_price
                final == quote[u].final_price
            IN  /\ final \in Round2(p * (100 - v))
                /\ quote[u].discount_amount = p - final
                /\ 0 <= final /\ final <= p
                /\ v = 100 => final = 0
                /\ v = 0 => final = p

\* C19: is_free is reported exactly when the final price is 0, and a
\* subscription created with a final price of 0 starts no checkout with a
\* payment provider, charges nothing and is activated directly.
C19_FreeOutcome ==
    /\ \A u \in Users :
          quote[u].final_price # None
              => (quote[u].is_free <=> quote[u].final_price = 0)
    /\ (checkout.status # "absent" /\ checkout.final_price = 0)
          => /\ checkout.method = "none"
             /\ checkout.amount = None
             /\ checkout.status = "active"

\* C20: converting a local instant to UTC (minus the offset) and back (plus
\* the offset) gives the instant again, for every offset, whole hours or
\* not, positive or negative: every listed message has scheduled_time =
\* scheduled_time_local - offset, and the local time listed for a
\* timezone-matched message is the local time it was scheduled for.
C20_RoundTrip ==
    \A i \in 1..Len(listing) :
        LET item == listing[i]
        IN  /\ LocalToUtc(item.scheduled_time_local,
                          item.timezone_offset_minutes) = item.scheduled_time
            /\ origin[item.id].matched
                  => item.scheduled_time_local = origin[item.id].local

\* A timezone-matched message of a subscriber at UTC+5:45 and one of a
\* subscriber west of UTC are listed.
C20_Witness ==
    /\ \E i \in 1..Len(listing) :
          /\ origin[listing[i].id].matched
          /\ listing[i].timezone_offset_minutes = 345
    /\ \E i \in 1..Len(listing) :
          /\ origin[listing[i].id].matched
          /\ listing[i].timezone_offset_minutes < 0

Manual(i) == origin[i].via \in {"rest", "admin", "cli"}

\* C21: a bare scheduled_time is persisted alike by the REST endpoint, the
\* admin panel endpoint and the CLI: minus the subscriber's offset when the
\* subscriber is timezone-matched, unchanged otherwise.
C21_OneConversionContract ==
    \A i \in 1..Len(msgs) :
        (Manual(i) /\ origin[i].utcoffset = None) =>
            msgs[i].scheduled_time =
                (IF origin[i].matched
                 THEN origin[i].local - msgs[i].timezone_offset_minutes
                 ELSE origin[i].local)

\* C22: a scheduled_time given with an offset is persisted as that instant
\* in naive UTC, whatever the subscriber's offset and preference; the offset
\* of the subscriber only serves the local time shown (UTC + offset).
C22_AbsoluteInput ==
    /\ \A i \in 1..Len(msgs) :
          (Manual(i) /\ origin[i].utcoffset # None) =>
              msgs[i].scheduled_time = origin[i].local - origin[i].utcoffset
    /\ \A k \in 1..Len(listing) :
          LET i == listing[k].id
          IN  (Manual(i) /\ origin[i].utcoffset # None) =>
                listing[k].scheduled_time_local =
                    origin[i].local - origin[i].utcoffset
                    + msgs[i].timezone_offset_minutes

\* An input at UTC+5:30 was scheduled for a timezone-matched subscriber of
\* another, non-zero offset, and listed.
C22_Witness ==
    \E k \in 1..Len(listing) :
        LET i == listing[k].id
        IN  /\ Manual(i) /\ origin[i].utcoffset = 330
            /\ origin[i].matched
            /\ msgs[i].timezone_offset_minutes \notin {0, 330}

\* The ids of the rows that a step has added.
NewRows == (Len(msgs) + 1)..Len(msgs')

\* C23: a successful schedule_group_messages creates exactly one message for
\* each subscriber of the group whose status is 'active' and none for any
\* other subscriber, and reports that number as scheduled.
C23_ExpandMembership ==
    [][\A g \in GroupInputs, type \in {"morning", "noon", "evening"},
         day \in 0..MaxDay :
          (ScheduleGroupMessages(g, type, day)
           /\ result'.outcome = "success") =>
              /\ \A s \in SubIds :
                    Cardinality({i \in NewRows :
                                   msgs'[i].subscriber_id = s})
                    = IF group[s] = g /\ status[s] = "active" THEN 1 ELSE 0
              /\ result'.scheduled = Len(msgs') - Len(msgs)]_vars

\* One row was created for a group that has a member who is not active.
C23_Witness ==
    /\ result.outcome = "success"
    /\ result.scheduled = 1
    /\ Len(msgs) = 1
    /\ \E s \in SubIds :
          /\ group[s] = group[msgs[1].subscriber_id]
          /\ status[s] = "pending"

\* C24: for a subscriber with use_timezone_matching and the preference
\* scheduled_timezone the message is scheduled at the date and the group's
\* clock time minus the subscriber's offset, and the subscriber is counted
\* as timezone_matched.
C24_ExpandMatched ==
    [][\A g \in GroupInputs, type \in {"morning", "noon", "evening"},
         day \in 0..MaxDay :
          (ScheduleGroupMessages(g, type, day)
           /\ result'.outcome = "success") =>
              LET matched ==
                      {i \in NewRows :
                         /\ tz[msgs'[i].subscriber_id].use_timezone_matching
                         /\ tz[msgs'[i].subscriber_id]
                               .message_delivery_preference
                            = "scheduled_timezone"}
              IN  /\ \A i \in matched :
                        msgs'[i].scheduled_time =
                            Combine(day, ParseClock(TimeStr(g, type)))
                            - tz[msgs'[i].subscriber_id]
                                .timezone_offset_minutes
                  /\ result'.timezone_matched = Cardinality(matched)]_vars

\* 08:00 of day 0 at UTC+5:30 is scheduled at 02:30 UTC of day 0, and 00:00
\* of day 0 in the evening of the day before.
C24_Witness ==
    /\ result.timezone_matched >= 1
    /\ \E i, j \in 1..Len(msgs) :
          /\ origin[i].local = Combine(0, <<8, 0>>)
          /\ msgs[i].timezone_offset_minutes = 330
          /\ msgs[i].scheduled_time = 150
          /\ origin[j].local = Combine(0, <<0, 0>>)
          /\ msgs[j].timezone_offset_minutes = 330
          /\ msgs[j].scheduled_time = -330

\* C25: for a subscriber without use_timezone_matching or with another
\* preference than scheduled_timezone the message is scheduled at the date
\* and the group's clock time as they are, whatever the offset, and the
\* subscriber is counted as non_timezone_matched.
C25_ExpandUnmatched ==
    [][\A g \in GroupInputs, type \in {"morning", "noon", "evening"},
         day \in 0..MaxDay :
          (ScheduleGroupMessages(g, type, day)
           /\ result'.outcome = "success") =>
              LET unmatched ==
                      {i \in NewRows :
                         \/ ~tz[msgs'[i].subscriber_id].use_timezone_matching
                         \/ tz[msgs'[i].subscriber_id]
                               .message_delivery_preference
                            # "scheduled_timezone"}
              IN  /\ \A i \in unmatched :
                        msgs'[i].scheduled_time =
                            Combine(day, ParseClock(TimeStr(g, type)))
                  /\ result'.non_timezone_matched
                     = Cardinality(unmatched)]_vars

\* A subscriber at UTC-5 with the flag set and the preference 'scheduled'
\* got a message at the clock time itself.
C25_Witness ==
    /\ result.non_timezone_matched = 1
    /\ \E i \in 1..Len(msgs) :
          LET s == msgs[i].subscriber_id
          IN  /\ tz[s].use_timezone_matching
              /\ tz[s].message_delivery_preference = "scheduled"
              /\ msgs[i].timezone_offset_minutes = -300
              /\ msgs[i].scheduled_time = origin[i].local

\* C26: the messages of one schedule_group_messages call become visible to
\* the other sessions together or not at all: the table only ever grows by
\* the complete batch of a call, one row for each subscriber the call has
\* selected, and a call that fails leaves no row.
C26_AtomicBatch ==
    [][\/ /\ Len(msgs') = Len(msgs)
          /\ origin' = origin
       \/ /\ call.pc = "adding"
          /\ call'.pc = "idle"
          /\ result'.outcome = "success"
          /\ Len(msgs') = Len(msgs) + Cardinality(call.subs)
          /\ \A i \in 1..Len(msgs) : msgs'[i].subscriber_id
                                      = msgs[i].subscriber_id
          /\ \A s \in call.subs :
                \E i \in NewRows : msgs'[i].subscriber_id = s]_vars

\* After a call that was rolled back with a row pending, a batch of two was
\* committed while the dispatcher was in a cycle.
C26_Witness ==
    /\ call.dropped >= 1
    /\ result.outcome = "success"
    /\ result.scheduled = 2
    /\ Len(msgs) = 2
    /\ \E p \in OnePoller : pc[p] = "loop" /\ pending[p] = <<>>

\* C27: schedule_group_messages for a group that does not exist returns the
\* error result with scheduled = 0 and leaves the messages as they are.
C27_MissingGroup ==
    [][\A g \in GroupInputs, type \in {"morning", "noon", "evening"},
         day \in 0..MaxDay :
          (ScheduleGroupMessages(g, type, day) /\ g \notin Groups) =>
              /\ result'.outcome = "error"
              /\ result'.scheduled = 0
              /\ msgs' = msgs]_vars

\* The error was returned while a message was scheduled.
C27_Witness ==
    /\ result.outcome = "error"
    /\ Len(msgs) > 0

\* C28: schedule_daily_group_messages attempts morning, noon and evening in
\* that order whatever becomes of the others: every type whose own call
\* does not fail gets its result and its messages, and the messages of the
\* types that succeeded stay.
C28_DailyIndependence ==
    [][\A g \in GroupInputs, day \in 0..MaxDay :
          ScheduleDailyGroupMessages(g, day) =>
              /\ \A k \in 1..Len(MessageTypes) :
                    ExpandResult(g, MessageTypes[k], day).outcome # "raised"
                    => \E j \in 1..Len(results'.keys) :
                          /\ results'.keys[j] = MessageTypes[k]
                          /\ results'.values[j]
                             = ExpandResult(g, MessageTypes[k], day)
              /\ \A i, j \in 1..Len(results'.keys) :
                    i < j => \E k, l \in 1..Len(MessageTypes) :
                                /\ k < l
                                /\ results'.keys[i] = MessageTypes[k]
                                /\ results'.keys[j] = MessageTypes[l]
              /\ \A i \in 1..Len(msgs) : msgs'[i] = msgs[i]
              /\ Len(msgs') - Len(msgs)
                 = Cardinality({k \in 1..Len(MessageTypes) :
                                  ExpandResult(g, MessageTypes[k], day).outcome
                                  = "success"})
                   * Cardinality(Members(g))]_vars

\* C29: schedule_weekly_group_messages runs the daily scheduling once for
\* each of the 7 dates from start_date on and for no other date: the result
\* has these 7 dates as keys, and every active member of the group gets 21
\* messages, 3 for each of the dates.
C29_WeeklyCoverage ==
    [][\A g \in GroupInputs, start \in 0..MaxDay :
          (ScheduleWeeklyGroupMessages(g, start)
           /\ results'.outcome = "returned") =>
              /\ results'.keys = [d \in 1..7 |-> start + d - 1]
              /\ \A d \in 1..7 : Len(results'.values[d]) = 3
              /\ \A s \in SubIds :
                    LET mine == {i \in NewRows : msgs'[i].subscriber_id = s}
                    IN  IF group[s] = g /\ status[s] = "active"
                        THEN /\ Cardinality(mine) = 21
                             /\ \A d \in start..(start + 6) :
                                   Cardinality(
                                     {i \in mine :
                                        /\ origin'[i].local >= d * 1440
                                        /\ origin'[i].local < (d + 1) * 1440})
                                   = 3
                        ELSE mine = {}]_vars

\* A week was scheduled for a group of one active member, up to the evening
\* of the seventh day.
C29_Witness ==
    /\ results.via = "weekly"
    /\ results.outcome = "returned"
    /\ Len(msgs) = 21
    /\ \E s \in SubIds : status[s] # "active" /\ group[s] = 1
    /\ origin[21].local = Combine(results.keys[1] + 6, <<23, 59>>)

\* C30: a message is created with the offset and the label that its
\* subscriber has at that moment, and no later step, a change of the
\* subscriber's timezone included, alters the offset, the label or the
\* scheduled_time of a message that exists.
C30_TimezoneSnapshot ==
    [][/\ \A i \in NewRows :
             /\ msgs'[i].timezone_offset_minutes
                = tz[msgs'[i].subscriber_id].timezone_offset_minutes
             /\ msgs'[i].timezone_label
                = tz[msgs'[i].subscriber_id].timezone_label
       /\ \A i \in 1..Len(msgs) :
             /\ msgs'[i].timezone_offset_minutes
                = msgs[i].timezone_offset_minutes
             /\ msgs'[i].timezone_label = msgs[i].timezone_label
             /\ msgs'[i].scheduled_time = msgs[i].scheduled_time]_vars

\* A message created at UTC+5:30 is listed with that offset and label after
\* its subscriber has moved to UTC.
C30_Witness ==
    \E k \in 1..Len(listing) :
        LET i == listing[k].id
            s == msgs[i].subscriber_id
        IN  /\ msgs[i].timezone_offset_minutes = 330
            /\ msgs[i].timezone_label = "UTC+5:30"
            /\ tz[s].timezone_offset_minutes = 0
            /\ tz[s].timezone_label = "UTC"
            /\ listing[k].timezone_offset_minutes = 330
            /\ listing[k].timezone_label = "UTC+5:30"

\* C34: every message of a schedule_group_messages call that was given a
\* message_text carries that text, whatever the message type; the greeting
\* of the type is used only when no text is given.
C34_MessageText ==
    [][\A g \in GroupInputs, type \in {"morning", "noon", "evening"},
         text \in TextInputs :
          Expand(g, type, text, Today) =>
              \A i \in NewRows :
                  msgs'[i].message = IF text # "" THEN text
                                                 ELSE Greeting(type)]_vars

\* C35: a send that returns False and a message skipped for a subscriber
\* who is not active do not end the pass: the loop moves to the next
\* message of the list selected at the start of the cycle, and the cycle
\* ends only when every message of that list has been handled.
C35_NoHeadOfLineBlocking ==
    [][\A p \in OnePoller :
          /\ (SendFailure(p) \/ SkipInactive(p)) =>
                /\ pending'[p] = pending[p]
                /\ idx'[p] = idx[p] + 1
                /\ pc'[p] = "loop"
          /\ EndCycle(p) =>
                /\ Len(outcome[p]) = Len(pending[p])
                /\ \A k \in 1..Len(pending[p]) :
                      outcome[p][k] \in {"skipped", "failed", "sent"}]_vars

\* In one pass the first message failed and the second was sent.
C35_Witness ==
    \E p \in OnePoller :
        /\ Len(pending[p]) = 2
        /\ outcome[p] = <<"failed", "sent">>

\* C36: with one poller and no crash between a send and its commit, the
\* send capability returns success at most once for a message, whatever the
\* number of sends that failed before.
C36_SingleDelivery ==
    \A m \in MsgIds : delivered[m] <= 1

\* A message was sent once after a failed attempt, and a later cycle has
\* run over the list without it.
C36_Witness ==
    \E p \in OnePoller, m \in 1..Len(msgs) :
        /\ delivered[m] = 1
        /\ failCount >= 1
        /\ msgs[m].sent = TRUE
        /\ Len(msgs) = 1
        /\ pc[p] = "loop" /\ pending[p] = <<>>

\* C37: a message has sent_at set exactly when sent is true, a sent message
\* has sent_at >= scheduled_time, and a send succeeds only for a message
\* whose subscriber's status is 'active' at that moment.
C37_SentBookkeeping ==
    [][/\ \A m \in 1..Len(msgs') :
             /\ (msgs'[m].sent_at # None) <=> (msgs'[m].sent = TRUE)
             /\ msgs'[m].sent = TRUE
                => msgs'[m].sent_at >= msgs'[m].scheduled_time
       /\ \A p \in OnePoller :
             SendSuccess(p) => status[msgs[CurrentMsg(p)].subscriber_id]
                              = "active"]_vars

\* C38: a successful schedule_group_messages adds one message for each
\* active member of the group whatever the table holds already, a second
\* call for the same type and day included; the pending query of a cycle
\* selects every due message, twins included.
C38_NoDeduplication ==
    [][/\ \A type \in {"morning", "noon", "evening"} :
             (ScheduleGroupMessages(1, type, Today)
              /\ result'.outcome = "success") =>
                 /\ Len(msgs') - Len(msgs)
                    = Cardinality({s \in SubIds :
                                     group[s] = 1 /\ status[s] = "active"})
                 /\ \A i \in 1..Len(msgs) : msgs'[i] = msgs[i]
       /\ \A p \in OnePoller :
             BeginCycle(p) =>
                 \A i \in 1..Len(msgs) :
                     (~msgs[i].sent /\ msgs[i].scheduled_time <= now)
                     => i \in Range(pending'[p])]_vars

\* Two calls left two messages of the same subscriber, time and text, and
\* the dispatcher has sent both.
C38_Witness ==
    /\ Len(msgs) = 2
    /\ msgs[1].subscriber_id = msgs[2].subscriber_id
    /\ msgs[1].scheduled_time = msgs[2].scheduled_time
    /\ msgs[1].message = msgs[2].message
    /\ origin[1] = origin[2]
    /\ msgs[1].sent /\ msgs[2].sent
    /\ delivered[1] = 1 /\ delivered[2] = 1

\* C33: deleting a plan that a subscriber refers to is rejected and leaves
\* the plan and the subscribers as they were, and the plan_id of every
\* subscriber is the id of a plan that exists.
C33_PlanDeletionGuard ==
    [][/\ \A p \in PlanIds :
             ( /\ p \in DOMAIN planPrice
               /\ SubscribersOf(p) # {}
               /\ DeletePlan(p) \/ CliDeletePlan(p) )
             => /\ answer'.code = "in use"
                /\ planPrice' = planPrice
                /\ upc' = upc /\ planOf' = planOf
       /\ \A u \in Users :
             (upc'[u] \in {"created", "loaded", "done"} /\ planOf'[u] # None)
             => planOf'[u] \in DOMAIN planPrice']_vars

\* C39: a request to approve or reject a subscriber's payment changes the
\* status only from 'pending' (to 'active', to 'inactive') and is refused
\* with the subscriber unchanged otherwise; a deposit that is 'approved' or
\* 'rejected' never changes again, and a deposit becomes 'approved' only
\* from 'pending' and together with its subscriber becoming 'active'.
C39_ManualApproval ==
    [][/\ \A s \in SubIds :
             /\ ApproveSubscriberPayment(s) =>
                   IF status[s] = "pending"
                   THEN /\ status' = [status EXCEPT ![s] = "active"]
                        /\ answer'.code = "ok"
                   ELSE /\ status' = status
                        /\ answer'.code # "ok"
             /\ RejectSubscriberPayment(s) =>
                   IF status[s] = "pending"
                   THEN /\ status' = [status EXCEPT ![s] = "inactive"]
                        /\ answer'.code = "ok"
                   ELSE /\ status' = status
                        /\ answer'.code # "ok"
       /\ \A d \in DOMAIN deposits :
             /\ deposits[d].status # "pending" => deposits'[d] = deposits[d]
             /\ deposits'[d].subscriber_id = deposits[d].subscriber_id
             /\ deposits'[d].status \in {deposits[d].status, "approved",
                                          "rejected"}
             /\ (deposits[d].status = "pending"
                 /\ deposits'[d].status = "approved")
                => status'[deposits[d].subscriber_id] = "active"
             /\ (ApproveDeposit(d) /\ answer'.code = "ok")
                => deposits'[d].status = "approved"
             /\ (RejectDeposit(d) /\ answer'.code = "ok")
                => deposits'[d].status = "rejected"]_vars

\* One deposit was approved and its subscriber is 'active', another was
\* rejected, and a further approval of the approved one has been refused.
C39_Witness ==
    \E d, e \in DOMAIN deposits :
        /\ deposits[d].status = "approved"
        /\ status[deposits[d].subscriber_id] = "active"
        /\ deposits[e].status = "rejected"
        /\ answer = Response("approve_deposit", d, "not pending")

\* C32: every message of the table belongs to a subscriber that exists, a
\* deleted subscriber has no message left, and every message that the loop
\* of a poll cycle handles is in the table and has its owner.
C32_ReferentialIntegrity ==
    [][/\ \A i \in 1..Len(msgs') :
             i \notin deleted' => status'[msgs'[i].subscriber_id] # "absent"
       /\ \A s \in SubIds :
             (status[s] # "absent" /\ status'[s] = "absent")
             => \A i \in 1..Len(msgs) :
                   msgs[i].subscriber_id = s => i \in deleted'
       /\ \A p \in OnePoller :
             ( /\ pc[p] \in {"loop", "commit"}
               /\ idx[p] <= Len(pending[p])
               /\ (idx'[p] # idx[p] \/ pc'[p] # pc[p]) )
             => /\ CurrentMsg(p) \notin deleted
                /\ status[msgs[CurrentMsg(p)].subscriber_id] # "absent"]_vars

\* C31: no step removes a message from msgs or changes the subscriber_id,
\* the text, the scheduled_time, the offset or the label of a message; sent
\* and sent_at change only in the dispatcher's commit of that message.
C31_StoreFrame ==
    [][/\ Len(msgs') >= Len(msgs)
       /\ \A i \in 1..Len(msgs) :
             /\ msgs'[i].subscriber_id = msgs[i].subscriber_id
             /\ msgs'[i].message = msgs[i].message
             /\ msgs'[i].scheduled_time = msgs[i].scheduled_time
             /\ msgs'[i].timezone_offset_minutes
                    = msgs[i].timezone_offset_minutes
             /\ msgs'[i].timezone_label = msgs[i].timezone_label
             /\ (msgs'[i].sent # msgs[i].sent
                 \/ msgs'[i].sent_at # msgs[i].sent_at)
                => \E p \in OnePoller :
                      CommitSent(p) /\ CurrentMsg(p) = i]_vars

\* Two messages with the offset of their creation, whose subscribers have
\* changed timezone since: one was sent by the dispatcher, the other is
\* pending after a send that failed.
C31_Witness ==
    \E i, j \in 1..Len(msgs) :
        /\ i # j
        /\ msgs[i].sent /\ msgs[i].sent_at # None
        /\ ~msgs[j].sent /\ msgs[j].sent_at = None
        /\ failCount > 0
        /\ \A k \in {i, j} :
              /\ k \notin deleted
              /\ msgs[k].timezone_offset_minutes
                    # tz[msgs[k].subscriber_id].timezone_offset_minutes

\* C9: every code with max_uses set has current_uses <= max_uses.
C9_UsesWithinMax ==
    \A c \in CodeIds :
        codes[c].max_uses # None => codes[c].current_uses <= codes[c].max_uses

\* C10: no increment is lost: when every subscription creation that uses a
\* code has finished, current_uses is the number of those creations.
C10_NoLostIncrement ==
    \A c \in CodeIds :
        (\A u \in Users : upc[u] \notin {"created", "loaded"}) =>
            codes[c].current_uses = Cardinality(Redeemed(c))

====
